---- MODULE Spec2Model ----
(***************************************************************************)
(* Order fulfilment and key inventory allocation of the key-store bot      *)
(* (src/bot.py, and the decisions of its variant src/pannel.py).  The      *)
(* store is the three tables keys, orders and sales_history; every handler *)
(* invocation is a call that advances one database statement (one await on *)
(* the connection) at a time, so calls of independent updates / replicas   *)
(* sharing the store interleave between statements.                        *)
(***************************************************************************)
EXTENDS Integers, Sequences, FiniteSets, TLC

(***************************************************************************)
(* Bounds of the model.                                                    *)
(***************************************************************************)
MaxCalls == 3
MaxOrders == 2
MaxKeys == 2
MaxFaults == 3
MaxFaultCalls == 2
MaxVariantCalls == 2
MaxNotifyCalls == 2
MaxKeyCalls == 2
MaxPannelCalls == 2
MaxProcs == 2
MaxConvCalls == 2

(***************************************************************************)
(* Program constants and input sets.                                       *)
(***************************************************************************)
max_retries == 3

ADMIN_IDS == {"admin"}
Operators == {"admin", "guest"}
Buyers == {"u1"}

DEFAULT_PLANS == {1, 3, 7, 15, 30, 60}
DEFAULT_PRICES == [d \in DEFAULT_PLANS |->
    CASE d = 1 -> 120 [] d = 3 -> 299 [] d = 7 -> 499
      [] d = 15 -> 699 [] d = 30 -> 999 [] d = 60 -> 1499]

\* The products table as it is after set-up: name, short_name, is_active.
ProductRows == {
    [name |-> "bgmi loader", short_name |-> "bgmi", is_active |-> TRUE],
    [name |-> "mars loader", short_name |-> "mars", is_active |-> TRUE] }

\* src/pannel.py keeps its products in a dictionary, not in a table.
PRODUCT_SHORT_NAMES ==
    [s \in {"mars", "kill", "bgmi", "bat"} |->
        CASE s = "mars" -> "mars loader"
          [] s = "kill" -> "kill loader"
          [] s = "bgmi" -> "bgmi loader"
          [] s = "bat" -> "bat loader"]

\* Inputs the handlers are driven with.
PlanInputs == {15, 30}
RacePlans == {15}
ProductInputs == {"bgmi loader"}
ShortInputs == {"bgmi"}
KeyShortInputs == {"bgmi", "mars"}
KeyDaysInputs == {15, 30}
\* Callback data of the conversation's buttons: the products listed; the
\* plans, one of them never in stock, and a duration that is no plan.
ConvProductInputs == {"bgmi loader", "mars loader"}
ConvPlanInputs == {15, 30, 2}
\* Products the operators add and remove.
CatalogNames == {"mars loader", "kill loader"}
CatalogShorts == {"mars", "kill"}
DaysInputs == {15}
KeyInputs == {"K1", "K2"}
CallIds == 1 .. MaxCalls
Procs == 1 .. MaxProcs
OrderIds == 1 .. MaxOrders

\* SQL NULL / Python None, and a present value.
NULL == << >>
Some(v) == << v >>
Val(x) == x[1]

VARIABLES
    keys,            \* table keys: set of rows
    orders,          \* table orders: sequence of rows, the id is the index
    sales_history,   \* table sales_history: sequence of rows
    products,        \* table products: set of rows
    key_seq,         \* number of key ids generated so far (gen_random_uuid)
    now,             \* the store's clock, now()
    call,            \* the handler invocations: CallIds -> call record
    faults,          \* store errors raised so far
    PRODUCTS,        \* the global PRODUCTS of each bot process
    user_data,       \* context.user_data of each buyer
    conv,            \* the buyer conversation: state, and the handler run last
    admin            \* the catalog handler each bot process is running

\* What the bot processes hold in memory.
memory == << PRODUCTS, user_data, conv, admin >>

vars == << keys, orders, sales_history, products, key_seq, now, call, faults,
           PRODUCTS, user_data, conv, admin >>

\* States of the buyer conversation; END is ConversationHandler.END.
SELECT_PRODUCT == 0
SELECT_PLAN == 1
PAYMENT_PROOF == 2
END == -1

\* context.user_data after clear().
EmptySession == [selected_product |-> NULL, selected_plan |-> NULL, price |-> NULL]
IdleConv == [state |-> END, last |-> "none"]
IdleAdmin == [handler |-> "none", pc |-> "idle", name |-> "", short |-> "",
              rows |-> {}]

\* SELECT name FROM products WHERE is_active=TRUE ORDER BY name: the list is
\* determined by the set of its names.
ActiveProducts(rows) == {r.name : r \in {x \in rows : x.is_active}}

\* The three tables as one value.
DB == [keys |-> keys, orders |-> orders, sales |-> sales_history]

(***************************************************************************)
(* Rows of the three tables.                                               *)
(***************************************************************************)
KeyRow(id, days, value, product, at) ==
    [id |-> id, duration_days |-> days, key_value |-> value, is_used |-> FALSE,
     added_at |-> at, product_name |-> product]

\* A mutation of OrderRow: duration and amount in each other's column.
OrderRowSwapped(user, product, days, amount, at) ==
    [user_id |-> user, username |-> user, duration_days |-> amount,
     amount |-> days, status |-> "pending", key_assigned |-> NULL,
     created_at |-> at, approved_at |-> NULL, product_name |-> product,
     approved_by |-> NULL]

OrderRow(user, product, days, amount, at) ==
    [user_id |-> user, username |-> user, duration_days |-> days,
     amount |-> amount, status |-> "pending", key_assigned |-> NULL,
     created_at |-> at, approved_at |-> NULL, product_name |-> product,
     approved_by |-> NULL]

SaleRow(order, key_value, at) ==
    [user_id |-> order.user_id, username |-> order.username,
     product_name |-> order.product_name, duration_days |-> order.duration_days,
     amount |-> order.amount, key_given |-> key_value, created_at |-> at]

(***************************************************************************)
(* The statements the handlers send, as values, and their effect on the    *)
(* tables.  An UPDATE or DELETE whose WHERE matches no row changes nothing.*)
(***************************************************************************)
MarkKeyUsed(key_id) == [op |-> "mark_key_used", id |-> key_id]
SetOrderApproved(order_id, key_value, by, at) ==
    [op |-> "set_order_approved", id |-> order_id, key_value |-> key_value,
     by |-> by, at |-> at]
InsertSale(row) == [op |-> "insert_sale", row |-> row]
SetOrderRejected(order_id) == [op |-> "set_order_rejected", id |-> order_id]
InsertKey(row) == [op |-> "insert_key", row |-> row]
DeleteKey(key_id) == [op |-> "delete_key", id |-> key_id]
InsertOrder(row) == [op |-> "insert_order", row |-> row]
\* pannel.py: UPDATE orders SET status='approved', key_assigned=$1,
\* approved_at=now() WHERE id=$2 (its orders table has no approved_by).
PannelSetOrderApproved(order_id, key_value, at) ==
    [op |-> "pannel_set_order_approved", id |-> order_id, key_value |-> key_value,
     at |-> at]

ApplyWrite(db, w) ==
    CASE w.op = "mark_key_used" ->
           [db EXCEPT !.keys = {IF k.id = w.id THEN [k EXCEPT !.is_used = TRUE] ELSE k
                                  : k \in db.keys}]
      [] w.op = "set_order_approved" ->
           IF w.id \in DOMAIN db.orders
           THEN [db EXCEPT !.orders[w.id] =
                    [@ EXCEPT !.status = "approved",
                              !.key_assigned = Some(w.key_value),
                              !.approved_at = Some(w.at),
                              !.approved_by = Some(w.by)]]
           ELSE db
      [] w.op = "pannel_set_order_approved" ->
           IF w.id \in DOMAIN db.orders
           THEN [db EXCEPT !.orders[w.id] =
                    [@ EXCEPT !.status = "approved",
                              !.key_assigned = Some(w.key_value),
                              !.approved_at = Some(w.at)]]
           ELSE db
      [] w.op = "insert_sale" ->
           [db EXCEPT !.sales = Append(@, w.row)]
      [] w.op = "set_order_rejected" ->
           IF w.id \in DOMAIN db.orders
           THEN [db EXCEPT !.orders[w.id] = [@ EXCEPT !.status = "rejected"]]
           ELSE db
      [] w.op = "insert_key" ->
           [db EXCEPT !.keys = @ \cup {w.row}]
      [] w.op = "delete_key" ->
           [db EXCEPT !.keys = {k \in @ : k.id # w.id}]
      [] w.op = "insert_order" ->
           [db EXCEPT !.orders = Append(@, w.row)]

RECURSIVE ApplyAll(_, _)
ApplyAll(db, ws) ==
    IF ws = << >> THEN db ELSE ApplyAll(ApplyWrite(db, Head(ws)), Tail(ws))

(***************************************************************************)
(* The queries.                                                            *)
(***************************************************************************)
\* A mutation of FetchOrder: the query without its WHERE id=$1.
FetchOrderAnyRow(db, order_id) ==
    IF db.orders # << >> THEN Some(db.orders[1]) ELSE NULL

\* SELECT * FROM orders WHERE id=$1
FetchOrder(db, order_id) ==
    IF order_id \in DOMAIN db.orders THEN Some(db.orders[order_id]) ELSE NULL

\* A mutation of AvailableKeys: the condition is_used=FALSE left out.
AvailableKeysIgnoringUsed(db, days, product) ==
    {k \in db.keys : k.duration_days = days /\ k.product_name = product}

\* ... FROM keys WHERE duration_days=$1 AND product_name=$2 AND is_used=FALSE
AvailableKeys(db, days, product) ==
    {k \in db.keys : k.duration_days = days /\ k.product_name = product
                     /\ ~k.is_used}

get_available_keys_count(db, product, days) ==
    Cardinality(AvailableKeys(db, days, product))

\* A mutation of SelectKey: the query without its ORDER BY added_at.
SelectKeyUnordered(db, days, product) == AvailableKeys(db, days, product)

\* A mutation of SelectKey: the plan left out of the WHERE clause.
SelectKeyAnyPlan(db, days, product) ==
    {k \in db.keys : ~k.is_used /\ \A j \in db.keys : ~j.is_used => k.added_at <= j.added_at}

\* A mutation of SelectKey: is_used=FALSE left out of the WHERE clause.
SelectKeyUsedToo(db, days, product) ==
    {k \in AvailableKeysIgnoringUsed(db, days, product) :
        \A j \in AvailableKeysIgnoringUsed(db, days, product) :
            k.added_at <= j.added_at}

\* The rows "ORDER BY added_at LIMIT 1" may return: with equal added_at the
\* store is free to return any of the oldest rows.
SelectKey(db, days, product) ==
    {k \in AvailableKeys(db, days, product) :
        \A j \in AvailableKeys(db, days, product) : k.added_at <= j.added_at}

\* pannel.py: the same WHERE with LIMIT 1 and no ORDER BY: any matching row.
PannelSelectKey(db, days, product) == AvailableKeys(db, days, product)

\* A mutation of get_full_name_by_short: the short name stored as the name.
ShortNameAsFullName(rows, short) == Some(short)

\* SELECT name FROM products WHERE short_name=$1 AND is_active=TRUE
get_full_name_by_short(rows, short) ==
    IF \E r \in rows : r.short_name = short /\ r.is_active
    THEN Some((CHOOSE r \in rows : r.short_name = short /\ r.is_active).name)
    ELSE NULL

\* SELECT 1 FROM keys WHERE key_value=$1
KeyValueExists(db, value) == \E k \in db.keys : k.key_value = value

\* SELECT * FROM keys WHERE duration_days=$1 AND key_value=$2
\*   AND product_name=$3 AND is_used=FALSE
RemovableKeys(db, days, value, product) ==
    {k \in db.keys : k.duration_days = days /\ k.key_value = value
                     /\ k.product_name = product /\ ~k.is_used}

(***************************************************************************)
(* A handler invocation.  pc is the statement the call runs next; order,   *)
(* kr, key_value are approve_order's locals of those names; in_tx and tx   *)
(* are the connection's open transaction and the writes staged in it;      *)
(* entry is the order row as it was when the handler was entered and       *)
(* failed_at the statement whose error was last logged.                    *)
(***************************************************************************)
IdleCall ==
    [handler |-> "none", pc |-> "idle", from_user |-> "", order_id |-> 0,
     attempt |-> 0, order |-> NULL, kr |-> NULL, key_value |-> NULL,
     in_tx |-> FALSE, tx |-> << >>, outcome |-> NULL, entry |-> NULL,
     failed_at |-> "", days |-> 0, key |-> "", product_name |-> NULL]

\* The handler returns: its locals are gone, what it reported stays.
Finish(c, outcome) ==
    [IdleCall EXCEPT !.handler = c.handler, !.pc = "done",
                     !.from_user = c.from_user, !.order_id = c.order_id,
                     !.entry = c.entry, !.failed_at = c.failed_at,
                     !.outcome = outcome]

\* conn.execute: staged when a transaction is open, else applied at once.
Execute(c, db, w) ==
    IF c.in_tx THEN [c |-> [c EXCEPT !.tx = Append(@, w)], db |-> db]
               ELSE [c |-> c, db |-> ApplyWrite(db, w)]

\* A mutation of BeginTransaction: the transaction block left out.
BeginTransactionOmitted(c) == c

\* async with conn.transaction(): entered
BeginTransaction(c) == [c EXCEPT !.in_tx = TRUE, !.tx = << >>]

\* async with conn.transaction(): left normally (COMMIT)
Commit(c, db) == [c |-> [c EXCEPT !.in_tx = FALSE, !.tx = << >>],
                  db |-> ApplyAll(db, c.tx)]

\* async with conn.transaction(): left by an exception (ROLLBACK)
Rollback(c) == [c EXCEPT !.in_tx = FALSE, !.tx = << >>]

\* A mutation of IsPending: the status guard left out.
IsPendingUnguarded(order) == TRUE

\* order["status"] != "pending" is the guard of both decisions
IsPending(order) == order.status = "pending"

SetDB(db) ==
    /\ keys' = db.keys
    /\ orders' = db.orders
    /\ sales_history' = db.sales

Invokable(p) ==
    /\ call[p].pc = "idle"
    /\ \A q \in CallIds : q < p => call[q].pc # "idle"

InFlight(p) == call[p].pc \notin {"idle", "done"}
AllReturned == \A p \in CallIds : ~InFlight(p)

(***************************************************************************)
(* approve_order                                                           *)
(***************************************************************************)
\* A mutation of ApproveEnter: the check against ADMIN_IDS left out.
ApproveEnterUnchecked(p, user, order_id) ==
    /\ Invokable(p)
    /\ call' = [call EXCEPT ![p] =
                  [IdleCall EXCEPT !.handler = "approve_order", !.from_user = user,
                                   !.order_id = order_id,
                                   !.entry = FetchOrder(DB, order_id),
                                   !.pc = "fetch"]]
    /\ UNCHANGED << keys, orders, sales_history, products, memory, key_seq, now, faults >>

ApproveEnter(p, user, order_id) ==
    /\ Invokable(p)
    /\ LET c == [IdleCall EXCEPT !.handler = "approve_order", !.from_user = user,
                                 !.order_id = order_id,
                                 !.entry = FetchOrder(DB, order_id)]
       IN call' = [call EXCEPT ![p] =
                     IF user \notin ADMIN_IDS
                     THEN Finish(c, Some("Unauthorized"))
                     ELSE [c EXCEPT !.pc = "fetch"]]
    /\ UNCHANGED << keys, orders, sales_history, products, memory, key_seq, now, faults >>

ApproveFetch(p) ==
    /\ call[p].handler = "approve_order" /\ call[p].pc = "fetch"
    /\ LET c == [call[p] EXCEPT !.order = FetchOrder(DB, call[p].order_id)]
       IN call' = [call EXCEPT ![p] =
                     IF c.order = NULL
                     THEN Finish(c, Some("OrderNotFound"))
                     ELSE IF ~IsPending(Val(c.order))
                     THEN Finish(c, << "AlreadyDecided", Val(c.order).status >>)
                     ELSE [c EXCEPT !.pc = "select"]]
    /\ UNCHANGED << keys, orders, sales_history, products, memory, key_seq, now, faults >>

ApproveSelect(p) ==
    /\ call[p].handler = "approve_order" /\ call[p].pc = "select"
    /\ LET o == Val(call[p].order)
           found == SelectKey(DB, o.duration_days, o.product_name)
       IN IF found = {}
          THEN call' = [call EXCEPT ![p] =
                          Finish([@ EXCEPT !.kr = NULL], Some("OutOfStock"))]
          ELSE \E k \in found :
                  call' = [call EXCEPT ![p] =
                             [@ EXCEPT !.kr = Some(k),
                                       !.key_value = Some(k.key_value),
                                       !.pc = "begin"]]
    /\ UNCHANGED << keys, orders, sales_history, products, memory, key_seq, now, faults >>

ApproveBegin(p) ==
    /\ call[p].handler = "approve_order" /\ call[p].pc = "begin"
    /\ call' = [call EXCEPT ![p] = [BeginTransaction(@) EXCEPT !.pc = "mark_key"]]
    /\ UNCHANGED << keys, orders, sales_history, products, memory, key_seq, now, faults >>

\* A mutation of ApproveWrite: the UPDATE of the order without its WHERE
\* id=$3 reaches the first order of the table.
ApproveWriteAnyOrder(c, at) ==
    CASE c.pc = "mark_key" -> MarkKeyUsed(Val(c.kr).id)
      [] c.pc = "set_order" ->
           SetOrderApproved(1, Val(c.key_value), c.from_user, at)
      [] c.pc = "insert_sale" ->
           InsertSale(SaleRow(Val(c.order), Val(c.key_value), at))

\* The statement approve_order sends at pc, from its locals.
ApproveWrite(c, at) ==
    CASE c.pc = "mark_key" -> MarkKeyUsed(Val(c.kr).id)
      [] c.pc = "set_order" ->
           SetOrderApproved(c.order_id, Val(c.key_value), c.from_user, at)
      [] c.pc = "insert_sale" ->
           InsertSale(SaleRow(Val(c.order), Val(c.key_value), at))

ApproveNextPc(pc) ==
    CASE pc = "mark_key" -> "set_order"
      [] pc = "set_order" -> "insert_sale"
      [] pc = "insert_sale" -> "commit"

ApproveExecute(p) ==
    /\ call[p].handler = "approve_order"
    /\ call[p].pc \in {"mark_key", "set_order", "insert_sale"}
    /\ LET r == Execute(call[p], DB, ApproveWrite(call[p], now))
       IN /\ call' = [call EXCEPT ![p] =
                        [r.c EXCEPT !.pc = ApproveNextPc(call[p].pc)]]
          /\ SetDB(r.db)
    /\ UNCHANGED << products, memory, key_seq, now, faults >>

ApproveCommit(p) ==
    /\ call[p].handler = "approve_order" /\ call[p].pc = "commit"
    /\ LET r == Commit(call[p], DB)
       IN /\ call' = [call EXCEPT ![p] = [r.c EXCEPT !.pc = "notify"]]
          /\ SetDB(r.db)
    /\ UNCHANGED << products, memory, key_seq, now, faults >>

\* After the retry loop: "if not order or not key_value", else the buyer and
\* the operator are told the key.
ApproveNotify(p) ==
    /\ call[p].handler = "approve_order" /\ call[p].pc = "notify"
    /\ call' = [call EXCEPT ![p] =
                  IF @.order = NULL \/ @.key_value = NULL
                  THEN Finish(@, Some("Failed"))
                  ELSE Finish(@, Some("Approved"))]
    /\ UNCHANGED << keys, orders, sales_history, products, memory, key_seq, now, faults >>

\* The statements of approve_order that go to the store.
ApproveStorePcs ==
    {"fetch", "select", "begin", "mark_key", "set_order", "insert_sale", "commit"}

\* A mutation of RetryOrRaise: the retry never gives up.
RetryUnbounded(c, at_pc) ==
    [Rollback(c) EXCEPT !.failed_at = at_pc, !.attempt = @ + 1, !.pc = "fetch"]

\* A mutation of RetryOrRaise: the last attempt logs the error without
\* raising it, and the handler goes on behind the loop.
RetryWithoutRaise(c, at_pc) ==
    LET r == [Rollback(c) EXCEPT !.failed_at = at_pc]
    IN IF c.attempt = max_retries - 1
       THEN [r EXCEPT !.pc = "notify"]
       ELSE [r EXCEPT !.attempt = @ + 1, !.pc = "fetch"]

\* A mutation of RetryOrRaise: the next attempt keeps the order it has read
\* and starts at the key selection.
RetryWithoutFetch(c, at_pc) ==
    LET r == [Rollback(c) EXCEPT !.failed_at = at_pc]
    IN IF c.attempt = max_retries - 1
       THEN Finish(r, Some("Error"))
       ELSE [r EXCEPT !.attempt = @ + 1,
                      !.pc = IF c.order = NULL THEN "fetch" ELSE "select"]

\* except (ConnectionDoesNotExistError, InterfaceError, PostgresConnectionError):
\* the transaction block has rolled back; the last attempt re-raises into the
\* outer except, any other attempt sleeps and starts over.
RetryOrRaise(c, at_pc) ==
    LET r == [Rollback(c) EXCEPT !.failed_at = at_pc]
    IN IF c.attempt = max_retries - 1
       THEN Finish(r, Some("Error"))
       ELSE [r EXCEPT !.attempt = @ + 1, !.pc = "fetch"]

\* A connection-class error raised by the statement at pc.
ApproveConnError(p) ==
    /\ call[p].handler = "approve_order" /\ call[p].pc \in ApproveStorePcs
    /\ faults < MaxFaults
    /\ faults' = faults + 1
    /\ call' = [call EXCEPT ![p] = RetryOrRaise(@, @.pc)]
    /\ UNCHANGED << keys, orders, sales_history, products, memory, key_seq, now >>

\* The connection is lost after the store has applied COMMIT and before the
\* client has its acknowledgement: the writes are in, the client sees a
\* connection-class error.
ApproveCommitLost(p) ==
    /\ call[p].handler = "approve_order" /\ call[p].pc = "commit"
    /\ faults < MaxFaults
    /\ faults' = faults + 1
    /\ LET r == Commit(call[p], DB)
       IN /\ call' = [call EXCEPT ![p] = RetryOrRaise(r.c, "commit")]
          /\ SetDB(r.db)
    /\ UNCHANGED << products, memory, key_seq, now >>

\* Any other store error (a serialization conflict, a statement refused in an
\* aborted transaction): rolled back, caught by the outer "except Exception".
ApproveStoreError(p) ==
    /\ call[p].handler = "approve_order" /\ call[p].pc \in ApproveStorePcs
    /\ faults < MaxFaults
    /\ faults' = faults + 1
    /\ call' = [call EXCEPT ![p] =
                  Finish([Rollback(call[p]) EXCEPT !.failed_at = call[p].pc],
                         Some("Error"))]
    /\ UNCHANGED << keys, orders, sales_history, products, memory, key_seq, now >>

(***************************************************************************)
(* reject_order                                                            *)
(***************************************************************************)
RejectEnter(p, user, order_id) ==
    /\ Invokable(p)
    /\ LET c == [IdleCall EXCEPT !.handler = "reject_order", !.from_user = user,
                                 !.order_id = order_id,
                                 !.entry = FetchOrder(DB, order_id)]
       IN call' = [call EXCEPT ![p] =
                     IF user \notin ADMIN_IDS
                     THEN Finish(c, Some("Unauthorized"))
                     ELSE [c EXCEPT !.pc = "fetch"]]
    /\ UNCHANGED << keys, orders, sales_history, products, memory, key_seq, now, faults >>

RejectFetch(p) ==
    /\ call[p].handler = "reject_order" /\ call[p].pc = "fetch"
    /\ LET c == [call[p] EXCEPT !.order = FetchOrder(DB, call[p].order_id)]
       IN call' = [call EXCEPT ![p] =
                     IF c.order = NULL
                     THEN Finish(c, Some("OrderNotFound"))
                     ELSE IF ~IsPending(Val(c.order))
                     THEN Finish(c, << "AlreadyDecided", Val(c.order).status >>)
                     ELSE [c EXCEPT !.pc = "update"]]
    /\ UNCHANGED << keys, orders, sales_history, products, memory, key_seq, now, faults >>

\* A mutation of RejectUpdate: the UPDATE without its WHERE id=$1.
RejectUpdateEveryOrder(p) ==
    /\ call[p].handler = "reject_order" /\ call[p].pc = "update"
    /\ orders' = [o \in DOMAIN orders |-> [orders[o] EXCEPT !.status = "rejected"]]
    /\ call' = [call EXCEPT ![p] = [@ EXCEPT !.pc = "notify"]]
    /\ UNCHANGED << keys, sales_history, products, memory, key_seq, now, faults >>

RejectUpdate(p) ==
    /\ call[p].handler = "reject_order" /\ call[p].pc = "update"
    /\ LET r == Execute(call[p], DB, SetOrderRejected(call[p].order_id))
       IN /\ call' = [call EXCEPT ![p] = [r.c EXCEPT !.pc = "notify"]]
          /\ SetDB(r.db)
    /\ UNCHANGED << products, memory, key_seq, now, faults >>

RejectNotify(p) ==
    /\ call[p].handler = "reject_order" /\ call[p].pc = "notify"
    /\ call' = [call EXCEPT ![p] = Finish(@, Some("Rejected"))]
    /\ UNCHANGED << keys, orders, sales_history, products, memory, key_seq, now, faults >>

\* reject_order has no try block: a store error leaves the handler as an
\* unhandled exception, nothing is retried and nothing is reported.
RejectStoreError(p) ==
    /\ call[p].handler = "reject_order" /\ call[p].pc \in {"fetch", "update"}
    /\ faults < MaxFaults
    /\ faults' = faults + 1
    /\ call' = [call EXCEPT ![p] =
                  Finish([call[p] EXCEPT !.failed_at = call[p].pc], Some("Raised"))]
    /\ UNCHANGED << keys, orders, sales_history, products, memory, key_seq, now >>

(***************************************************************************)
(* Telegram failures after a decision.  what is the call that raises:      *)
(* "send_message" (the buyer's message) or "edit_message_text" (the        *)
(* operator's message).                                                    *)
(***************************************************************************)
Notifications == {"send_message", "edit_message_text"}

\* A mutation of ApproveNotifyFailed: the failure handler puts the order back.
ApproveNotifyFailedUndoing(p, what) ==
    /\ call[p].handler = "approve_order" /\ call[p].pc = "notify"
    /\ orders' = [orders EXCEPT ![call[p].order_id] =
                     [@ EXCEPT !.status = "pending", !.key_assigned = NULL]]
    /\ call' = [call EXCEPT ![p] =
                  Finish([call[p] EXCEPT !.failed_at = what], Some("Error"))]
    /\ UNCHANGED << keys, sales_history, products, memory, key_seq, now, faults >>

\* approve_order: the buyer's message is inside try/except (logged, the
\* operator still gets the approval); a failing operator message reaches the
\* outer "except Exception", which reports the error.
ApproveNotifyFailed(p, what) ==
    /\ call[p].handler = "approve_order" /\ call[p].pc = "notify"
    /\ call[p].order # NULL /\ call[p].key_value # NULL
    /\ call' = [call EXCEPT ![p] =
                  Finish([call[p] EXCEPT !.failed_at = what],
                         IF what = "send_message" THEN Some("Approved")
                                                  ELSE Some("Error"))]
    /\ UNCHANGED << keys, orders, sales_history, products, memory, key_seq, now, faults >>

\* reject_order: the buyer's message is inside try/except (pass); a failing
\* operator message leaves the handler as an unhandled exception.
RejectNotifyFailed(p, what) ==
    /\ call[p].handler = "reject_order" /\ call[p].pc = "notify"
    /\ call' = [call EXCEPT ![p] =
                  Finish([call[p] EXCEPT !.failed_at = what],
                         IF what = "send_message" THEN Some("Rejected")
                                                  ELSE Some("Raised"))]
    /\ UNCHANGED << keys, orders, sales_history, products, memory, key_seq, now, faults >>

(***************************************************************************)
(* add_key                                                                 *)
(***************************************************************************)
AddsInFlight ==
    Cardinality({q \in CallIds : /\ call[q].handler \in {"add_key", "pannel.add_key"}
                                 /\ InFlight(q)})

AddKeyEnter(p, user, days, key, short) ==
    /\ Invokable(p)
    /\ key_seq + AddsInFlight < MaxKeys
    /\ LET c == [IdleCall EXCEPT !.handler = "add_key", !.from_user = user,
                                 !.days = days, !.key = key]
       IN call' = [call EXCEPT ![p] =
                     IF user \notin ADMIN_IDS
                     THEN Finish(c, Some("Unauthorized"))
                     ELSE IF days \notin DEFAULT_PLANS
                     THEN Finish(c, Some("InvalidDuration"))
                     ELSE LET name == get_full_name_by_short(products, short)
                          IN IF name = NULL
                             THEN Finish(c, Some("InvalidProduct"))
                             ELSE [c EXCEPT !.product_name = name,
                                            !.pc = "exists"]]
    /\ UNCHANGED << keys, orders, sales_history, products, memory, key_seq, now, faults >>

AddKeyExists(p) ==
    /\ call[p].handler = "add_key" /\ call[p].pc = "exists"
    /\ call' = [call EXCEPT ![p] =
                  IF KeyValueExists(DB, @.key)
                  THEN Finish(@, Some("Duplicate"))
                  ELSE [@ EXCEPT !.pc = "insert"]]
    /\ UNCHANGED << keys, orders, sales_history, products, memory, key_seq, now, faults >>

\* A mutation of AddKeyInsert: the table without its unique index.
AddKeyInsertUnindexed(p) ==
    /\ call[p].handler = "add_key" /\ call[p].pc = "insert"
    /\ keys' = ApplyWrite(DB, InsertKey(KeyRow(key_seq + 1, call[p].days,
                    call[p].key, Val(call[p].product_name), now))).keys
    /\ key_seq' = key_seq + 1
    /\ now' \in {now, now + 1}
    /\ call' = [call EXCEPT ![p] = Finish(@, Some("Added"))]
    /\ UNCHANGED << orders, sales_history, products, memory, faults >>

\* The INSERT: idx_keys_key_value_unique refuses a key_value that is already
\* there, which the handler's "except Exception" reports as an error.  The
\* next row may get the same added_at or a later one.
AddKeyInsert(p) ==
    /\ call[p].handler = "add_key" /\ call[p].pc = "insert"
    /\ IF KeyValueExists(DB, call[p].key)
       THEN /\ call' = [call EXCEPT ![p] = Finish(@, Some("Error"))]
            /\ UNCHANGED << keys, key_seq, now >>
       ELSE /\ keys' = ApplyWrite(DB, InsertKey(KeyRow(key_seq + 1, call[p].days,
                           call[p].key, Val(call[p].product_name), now))).keys
            /\ key_seq' = key_seq + 1
            /\ now' \in {now, now + 1}
            /\ call' = [call EXCEPT ![p] = Finish(@, Some("Added"))]
    /\ UNCHANGED << orders, sales_history, products, memory, faults >>

(***************************************************************************)
(* remove_key                                                              *)
(***************************************************************************)
RemoveKeyEnter(p, user, days, key, short) ==
    /\ Invokable(p)
    /\ LET c == [IdleCall EXCEPT !.handler = "remove_key", !.from_user = user,
                                 !.days = days, !.key = key]
       IN call' = [call EXCEPT ![p] =
                     IF user \notin ADMIN_IDS
                     THEN Finish(c, Some("Unauthorized"))
                     ELSE LET name == get_full_name_by_short(products, short)
                          IN IF name = NULL
                             THEN Finish(c, Some("InvalidProduct"))
                             ELSE [c EXCEPT !.product_name = name,
                                            !.pc = "select"]]
    /\ UNCHANGED << keys, orders, sales_history, products, memory, key_seq, now, faults >>

RemoveKeySelect(p) ==
    /\ call[p].handler = "remove_key" /\ call[p].pc = "select"
    /\ LET found == RemovableKeys(DB, call[p].days, call[p].key,
                                  Val(call[p].product_name))
       IN IF found = {}
          THEN call' = [call EXCEPT ![p] = Finish(@, Some("NotFoundOrUsed"))]
          ELSE \E k \in found :
                  call' = [call EXCEPT ![p] = [@ EXCEPT !.kr = Some(k),
                                                        !.pc = "delete"]]
    /\ UNCHANGED << keys, orders, sales_history, products, memory, key_seq, now, faults >>

RemoveKeyDelete(p) ==
    /\ call[p].handler = "remove_key" /\ call[p].pc = "delete"
    /\ LET r == Execute(call[p], DB, DeleteKey(Val(call[p].kr).id))
       IN /\ call' = [call EXCEPT ![p] = Finish(r.c, Some("Removed"))]
          /\ SetDB(r.db)
    /\ UNCHANGED << products, memory, key_seq, now, faults >>

(***************************************************************************)
(* payment_proof: the order a completed conversation inserts.              *)
(***************************************************************************)
PaymentProof(user, product, days) ==
    /\ Len(orders) < MaxOrders
    /\ SetDB(ApplyWrite(DB, InsertOrder(
             OrderRow(user, product, days, DEFAULT_PRICES[days], now))))
    /\ UNCHANGED << products, memory, key_seq, now, call, faults >>

(***************************************************************************)
(* The buyer conversation (ConversationHandler conv_handler).  Updates of  *)
(* a process are handled one after the other, so each handler is one step. *)
(* conv[u].state is the conversation state of buyer u, conv[u].last the    *)
(* handler that ran last for u.                                            *)
(***************************************************************************)
Ran(u, state, handler) ==
    conv' = [conv EXCEPT ![u] = [state |-> state, last |-> handler]]

\* /start is the entry point and, with allow_reentry, restarts a conversation
\* in any state; it does not touch user_data.
start(u, q) ==
    /\ Ran(u, IF PRODUCTS[q] = {} THEN END ELSE SELECT_PRODUCT, "start")
    /\ UNCHANGED << keys, orders, sales_history, products, key_seq, now, call,
                    faults, PRODUCTS, user_data, admin >>

product_selected(u, product) ==
    /\ conv[u].state = SELECT_PRODUCT
    /\ user_data' = [user_data EXCEPT ![u].selected_product = Some(product)]
    /\ Ran(u, SELECT_PLAN, "product_selected")
    /\ UNCHANGED << keys, orders, sales_history, products, key_seq, now, call,
                    faults, PRODUCTS, admin >>

\* A mutation of plan_selected: a price already in the session is kept.
plan_selected_keeping_price(u, duration) ==
    /\ conv[u].state = SELECT_PLAN
    /\ duration \in DOMAIN DEFAULT_PRICES
    /\ user_data[u].selected_product # NULL
    /\ get_available_keys_count(DB, Val(user_data[u].selected_product), duration) > 0
    /\ user_data' = [user_data EXCEPT
                        ![u].selected_plan = Some(duration),
                        ![u].price = IF @ = NULL THEN Some(DEFAULT_PRICES[duration])
                                                 ELSE @]
    /\ Ran(u, PAYMENT_PROOF, "plan_selected")
    /\ UNCHANGED << keys, orders, sales_history, products, key_seq, now, call,
                    faults, PRODUCTS, admin >>

\* DEFAULT_PRICES[duration] raises KeyError for a duration that is no plan:
\* the handler ends there and the conversation stays where it was.  A session
\* without a product counts no key (product_name = NULL matches no row).
plan_selected(u, duration) ==
    /\ conv[u].state = SELECT_PLAN
    /\ IF duration \notin DOMAIN DEFAULT_PRICES
       THEN UNCHANGED << user_data, conv >>
       ELSE LET product == user_data[u].selected_product
                available == IF product = NULL THEN 0
                             ELSE get_available_keys_count(DB, Val(product), duration)
            IN IF available = 0
               THEN /\ Ran(u, SELECT_PLAN, "plan_selected")
                    /\ UNCHANGED user_data
               ELSE /\ user_data' = [user_data EXCEPT
                                       ![u].selected_plan = Some(duration),
                                       ![u].price = Some(DEFAULT_PRICES[duration])]
                    /\ Ran(u, PAYMENT_PROOF, "plan_selected")
    /\ UNCHANGED << keys, orders, sales_history, products, key_seq, now, call,
                    faults, PRODUCTS, admin >>

\* A mutation of payment_proof: the "Session expired" guard left out.
payment_proof_unguarded(u) ==
    /\ conv[u].state = PAYMENT_PROOF
    /\ Len(orders) < MaxOrders
    /\ LET d == user_data[u]
       IN SetDB(ApplyWrite(DB, InsertOrder(
             [OrderRow(u, "", 0, 0, now) EXCEPT
                 !.product_name = IF d.selected_product = NULL THEN ""
                                  ELSE Val(d.selected_product),
                 !.duration_days = IF d.selected_plan = NULL THEN 0
                                   ELSE Val(d.selected_plan),
                 !.amount = IF d.price = NULL THEN 0 ELSE Val(d.price)])))
    /\ user_data' = [user_data EXCEPT ![u] = EmptySession]
    /\ Ran(u, END, "payment_proof")
    /\ UNCHANGED << products, key_seq, now, call, faults, PRODUCTS, admin >>

\* The proof message: "Session expired" when the product, the plan or the
\* price is missing, else the INSERT of the order and user_data.clear().
payment_proof(u) ==
    /\ conv[u].state = PAYMENT_PROOF
    /\ LET d == user_data[u]
       IN IF d.selected_product = NULL \/ d.selected_plan = NULL \/ d.price = NULL
          THEN /\ Ran(u, END, "payment_proof")
               /\ UNCHANGED << keys, orders, sales_history, user_data >>
          ELSE /\ Len(orders) < MaxOrders
               /\ SetDB(ApplyWrite(DB, InsertOrder(
                     OrderRow(u, Val(d.selected_product), Val(d.selected_plan),
                              Val(d.price), now))))
               /\ user_data' = [user_data EXCEPT ![u] = EmptySession]
               /\ Ran(u, END, "payment_proof")
    /\ UNCHANGED << products, key_seq, now, call, faults, PRODUCTS, admin >>

\* A mutation of cancel_cb: user_data is kept.
cancel_cb_keeping(u) ==
    /\ Ran(u, conv[u].state, "cancel_cb")
    /\ UNCHANGED << keys, orders, sales_history, products, key_seq, now, call,
                    faults, PRODUCTS, user_data, admin >>

\* /cancel is a fallback of the conversation: it runs only inside one.
cancel_cmd(u) ==
    /\ conv[u].state # END
    /\ user_data' = [user_data EXCEPT ![u] = EmptySession]
    /\ Ran(u, END, "cancel_cmd")
    /\ UNCHANGED << keys, orders, sales_history, products, key_seq, now, call,
                    faults, PRODUCTS, admin >>

\* The Cancel button is taken by the global CallbackQueryHandler, which is
\* registered before the conversation in the same group: user_data is
\* cleared, the conversation is not told and keeps its state.
cancel_cb(u) ==
    /\ user_data' = [user_data EXCEPT ![u] = EmptySession]
    /\ Ran(u, conv[u].state, "cancel_cb")
    /\ UNCHANGED << keys, orders, sales_history, products, key_seq, now, call,
                    faults, PRODUCTS, admin >>

(***************************************************************************)
(* The catalog handlers.  A bot process handles its updates one after the  *)
(* other, so it runs one handler at a time; admin[q] is the handler        *)
(* process q is in and the statement it runs next.  Processes that share   *)
(* the store interleave at their statements.                               *)
(***************************************************************************)
AdminFree(q) == admin[q].pc \in {"idle", "done"}
AdminDone(q, outcome) ==
    [IdleAdmin EXCEPT !.handler = admin[q].handler, !.pc = "done",
                      !.name = outcome]

\* admin_confirm_cb with the name and short name of the add-product dialogue
AdminConfirmEnter(q, user, name, short) ==
    /\ AdminFree(q)
    /\ admin' = [admin EXCEPT ![q] =
                   IF user \notin ADMIN_IDS
                   THEN [IdleAdmin EXCEPT !.handler = "admin_confirm_cb",
                                          !.pc = "done", !.name = "Unauthorized"]
                   ELSE [IdleAdmin EXCEPT !.handler = "admin_confirm_cb",
                                          !.pc = "clash", !.name = name,
                                          !.short = short]]
    /\ UNCHANGED << keys, orders, sales_history, products, key_seq, now, call,
                    faults, PRODUCTS, user_data, conv >>

\* SELECT name FROM products WHERE short_name=$1 AND name<>$2
AdminConfirmClash(q) ==
    /\ admin[q].handler = "admin_confirm_cb" /\ admin[q].pc = "clash"
    /\ admin' = [admin EXCEPT ![q] =
                   IF \E r \in products : /\ r.short_name = admin[q].short
                                          /\ r.name # admin[q].name
                   THEN AdminDone(q, "Clash")
                   ELSE [@ EXCEPT !.pc = "existing"]]
    /\ UNCHANGED << keys, orders, sales_history, products, key_seq, now, call,
                    faults, PRODUCTS, user_data, conv >>

\* SELECT * FROM products WHERE name=$1
AdminConfirmExisting(q) ==
    /\ admin[q].handler = "admin_confirm_cb" /\ admin[q].pc = "existing"
    /\ admin' = [admin EXCEPT ![q] =
                   [@ EXCEPT !.pc = IF \E r \in products : r.name = admin[q].name
                                    THEN "update" ELSE "insert"]]
    /\ UNCHANGED << keys, orders, sales_history, products, key_seq, now, call,
                    faults, PRODUCTS, user_data, conv >>

\* The UPDATE or the INSERT.  name is the primary key and short_name is
\* UNIQUE: a statement the store refuses raises, the handler replies "Failed
\* to add product" and returns without reloading PRODUCTS.
AdminConfirmWrite(q) ==
    /\ admin[q].handler = "admin_confirm_cb" /\ admin[q].pc \in {"update", "insert"}
    /\ LET name == admin[q].name
           short == admin[q].short
           taken == \E r \in products : r.short_name = short /\ r.name # name
       IN IF taken \/ (admin[q].pc = "insert" /\ \E r \in products : r.name = name)
          THEN /\ admin' = [admin EXCEPT ![q] = AdminDone(q, "Failed")]
               /\ UNCHANGED products
          ELSE /\ products' =
                    IF admin[q].pc = "update"
                    THEN {IF r.name = name
                          THEN [r EXCEPT !.short_name = short, !.is_active = TRUE]
                          ELSE r : r \in products}
                    ELSE products \cup {[name |-> name, short_name |-> short,
                                         is_active |-> TRUE]}
               /\ admin' = [admin EXCEPT ![q] = [@ EXCEPT !.pc = "load"]]
    /\ UNCHANGED << keys, orders, sales_history, key_seq, now, call, faults,
                    PRODUCTS, user_data, conv >>

\* admin_cb with admin_confirm_remove_short::<short> (by = "short") or
\* admin_confirm_remove_name::<name> (by = "name")
AdminRemoveEnter(q, user, by, value) ==
    /\ AdminFree(q)
    /\ admin' = [admin EXCEPT ![q] =
                   IF user \notin ADMIN_IDS
                   THEN [IdleAdmin EXCEPT !.handler = "admin_cb",
                                          !.pc = "done", !.name = "Unauthorized"]
                   ELSE IF by = "short"
                   THEN [IdleAdmin EXCEPT !.handler = "admin_cb",
                                          !.pc = "deactivate", !.short = value]
                   ELSE [IdleAdmin EXCEPT !.handler = "admin_cb",
                                          !.pc = "deactivate", !.name = value]]
    /\ UNCHANGED << keys, orders, sales_history, products, key_seq, now, call,
                    faults, PRODUCTS, user_data, conv >>

\* UPDATE products SET is_active=FALSE WHERE short_name=$1 AND is_active=TRUE
\* (or WHERE name=$1 AND is_active=TRUE)
AdminRemoveWrite(q) ==
    /\ admin[q].handler = "admin_cb" /\ admin[q].pc = "deactivate"
    /\ products' = {IF /\ r.is_active
                       /\ \/ admin[q].short # "" /\ r.short_name = admin[q].short
                          \/ admin[q].name # "" /\ r.name = admin[q].name
                    THEN [r EXCEPT !.is_active = FALSE] ELSE r : r \in products}
    /\ admin' = [admin EXCEPT ![q] = [@ EXCEPT !.pc = "load"]]
    /\ UNCHANGED << keys, orders, sales_history, key_seq, now, call, faults,
                    PRODUCTS, user_data, conv >>

\* load_products_from_db: the query, answered by the store ...
AdminLoad(q) ==
    /\ admin[q].pc = "load"
    /\ admin' = [admin EXCEPT ![q] =
                   [@ EXCEPT !.rows = ActiveProducts(products), !.pc = "assign"]]
    /\ UNCHANGED << keys, orders, sales_history, products, key_seq, now, call,
                    faults, PRODUCTS, user_data, conv >>

\* ... and the assignment to the global PRODUCTS of the process.
AdminAssign(q) ==
    /\ admin[q].pc = "assign"
    /\ PRODUCTS' = [PRODUCTS EXCEPT ![q] = admin[q].rows]
    /\ admin' = [admin EXCEPT ![q] = AdminDone(q, "Done")]
    /\ UNCHANGED << keys, orders, sales_history, products, key_seq, now, call,
                    faults, user_data, conv >>

(***************************************************************************)
(* src/pannel.py: approve_order.  No transaction and no retry: each write  *)
(* is applied as it is sent, the order first, then the key, then the sale. *)
(***************************************************************************)
PannelApproveEnter(p, user, order_id) ==
    /\ Invokable(p)
    /\ LET c == [IdleCall EXCEPT !.handler = "pannel.approve_order",
                                 !.from_user = user, !.order_id = order_id,
                                 !.entry = FetchOrder(DB, order_id)]
       IN call' = [call EXCEPT ![p] =
                     IF user \notin ADMIN_IDS
                     THEN Finish(c, Some("Unauthorized"))
                     ELSE [c EXCEPT !.pc = "fetch"]]
    /\ UNCHANGED << keys, orders, sales_history, products, memory, key_seq, now, faults >>

PannelApproveFetch(p) ==
    /\ call[p].handler = "pannel.approve_order" /\ call[p].pc = "fetch"
    /\ LET c == [call[p] EXCEPT !.order = FetchOrder(DB, call[p].order_id)]
       IN call' = [call EXCEPT ![p] =
                     IF c.order = NULL
                     THEN Finish(c, Some("OrderNotFound"))
                     ELSE IF ~IsPending(Val(c.order))
                     THEN Finish(c, << "AlreadyDecided", Val(c.order).status >>)
                     ELSE [c EXCEPT !.pc = "select"]]
    /\ UNCHANGED << keys, orders, sales_history, products, memory, key_seq, now, faults >>

PannelApproveSelect(p) ==
    /\ call[p].handler = "pannel.approve_order" /\ call[p].pc = "select"
    /\ LET o == Val(call[p].order)
           found == PannelSelectKey(DB, o.duration_days, o.product_name)
       IN IF found = {}
          THEN call' = [call EXCEPT ![p] =
                          Finish([@ EXCEPT !.kr = NULL], Some("OutOfStock"))]
          ELSE \E k \in found :
                  call' = [call EXCEPT ![p] =
                             [@ EXCEPT !.kr = Some(k),
                                       !.key_value = Some(k.key_value),
                                       !.pc = "set_order"]]
    /\ UNCHANGED << keys, orders, sales_history, products, memory, key_seq, now, faults >>

\* The statement pannel.py's approve_order sends at pc, from its locals.
PannelApproveWrite(c, at) ==
    CASE c.pc = "set_order" ->
           PannelSetOrderApproved(c.order_id, Val(c.key_value), at)
      [] c.pc = "mark_key" -> MarkKeyUsed(Val(c.kr).id)
      [] c.pc = "insert_sale" ->
           InsertSale(SaleRow(Val(c.order), Val(c.key_value), at))

PannelApproveNextPc(pc) ==
    CASE pc = "set_order" -> "mark_key"
      [] pc = "mark_key" -> "insert_sale"
      [] pc = "insert_sale" -> "notify"

PannelApproveExecute(p) ==
    /\ call[p].handler = "pannel.approve_order"
    /\ call[p].pc \in {"set_order", "mark_key", "insert_sale"}
    /\ LET r == Execute(call[p], DB, PannelApproveWrite(call[p], now))
       IN /\ call' = [call EXCEPT ![p] =
                        [r.c EXCEPT !.pc = PannelApproveNextPc(call[p].pc)]]
          /\ SetDB(r.db)
    /\ UNCHANGED << products, memory, key_seq, now, faults >>

PannelApproveNotify(p) ==
    /\ call[p].handler = "pannel.approve_order" /\ call[p].pc = "notify"
    /\ call' = [call EXCEPT ![p] = Finish(@, Some("Approved"))]
    /\ UNCHANGED << keys, orders, sales_history, products, memory, key_seq, now, faults >>

(***************************************************************************)
(* src/pannel.py: reject_order                                             *)
(***************************************************************************)
PannelRejectEnter(p, user, order_id) ==
    /\ Invokable(p)
    /\ LET c == [IdleCall EXCEPT !.handler = "pannel.reject_order",
                                 !.from_user = user, !.order_id = order_id,
                                 !.entry = FetchOrder(DB, order_id)]
       IN call' = [call EXCEPT ![p] =
                     IF user \notin ADMIN_IDS
                     THEN Finish(c, Some("Unauthorized"))
                     ELSE [c EXCEPT !.pc = "fetch"]]
    /\ UNCHANGED << keys, orders, sales_history, products, memory, key_seq, now, faults >>

PannelRejectFetch(p) ==
    /\ call[p].handler = "pannel.reject_order" /\ call[p].pc = "fetch"
    /\ LET c == [call[p] EXCEPT !.order = FetchOrder(DB, call[p].order_id)]
       IN call' = [call EXCEPT ![p] =
                     IF c.order = NULL
                     THEN Finish(c, Some("OrderNotFound"))
                     ELSE IF ~IsPending(Val(c.order))
                     THEN Finish(c, << "AlreadyDecided", Val(c.order).status >>)
                     ELSE [c EXCEPT !.pc = "update"]]
    /\ UNCHANGED << keys, orders, sales_history, products, memory, key_seq, now, faults >>

PannelRejectUpdate(p) ==
    /\ call[p].handler = "pannel.reject_order" /\ call[p].pc = "update"
    /\ LET r == Execute(call[p], DB, SetOrderRejected(call[p].order_id))
       IN /\ call' = [call EXCEPT ![p] = [r.c EXCEPT !.pc = "notify"]]
          /\ SetDB(r.db)
    /\ UNCHANGED << products, memory, key_seq, now, faults >>

PannelRejectNotify(p) ==
    /\ call[p].handler = "pannel.reject_order" /\ call[p].pc = "notify"
    /\ call' = [call EXCEPT ![p] = Finish(@, Some("Rejected"))]
    /\ UNCHANGED << keys, orders, sales_history, products, memory, key_seq, now, faults >>

(***************************************************************************)
(* src/pannel.py: an exception of the store in approve_order.  The handler *)
(* has no try block: the exception leaves it, and what was written stays.  *)
(***************************************************************************)
PannelApproveStoreError(p) ==
    /\ call[p].handler = "pannel.approve_order"
    /\ call[p].pc \in {"fetch", "select", "set_order", "mark_key", "insert_sale"}
    /\ faults < MaxFaults
    /\ faults' = faults + 1
    /\ call' = [call EXCEPT ![p] =
                  Finish([call[p] EXCEPT !.failed_at = call[p].pc], Some("Raised"))]
    /\ UNCHANGED << keys, orders, sales_history, products, memory, key_seq, now >>

(***************************************************************************)
(* src/pannel.py: add_key.  The keys table has no unique index here.       *)
(***************************************************************************)
PannelAddKeyEnter(p, user, days, key, short) ==
    /\ Invokable(p)
    /\ key_seq + AddsInFlight < MaxKeys
    /\ LET c == [IdleCall EXCEPT !.handler = "pannel.add_key",
                                 !.from_user = user, !.days = days, !.key = key]
       IN call' = [call EXCEPT ![p] =
                     IF user \notin ADMIN_IDS
                     THEN Finish(c, Some("Unauthorized"))
                     ELSE IF days \notin DEFAULT_PLANS
                     THEN Finish(c, Some("InvalidDuration"))
                     ELSE IF short \notin DOMAIN PRODUCT_SHORT_NAMES
                     THEN Finish(c, Some("InvalidProduct"))
                     ELSE [c EXCEPT !.product_name = Some(PRODUCT_SHORT_NAMES[short]),
                                    !.pc = "exists"]]
    /\ UNCHANGED << keys, orders, sales_history, products, memory, key_seq, now, faults >>

PannelAddKeyExists(p) ==
    /\ call[p].handler = "pannel.add_key" /\ call[p].pc = "exists"
    /\ call' = [call EXCEPT ![p] =
                  IF KeyValueExists(DB, @.key)
                  THEN Finish(@, Some("Duplicate"))
                  ELSE [@ EXCEPT !.pc = "insert"]]
    /\ UNCHANGED << keys, orders, sales_history, products, memory, key_seq, now, faults >>

PannelAddKeyInsert(p) ==
    /\ call[p].handler = "pannel.add_key" /\ call[p].pc = "insert"
    /\ keys' = ApplyWrite(DB, InsertKey(KeyRow(key_seq + 1, call[p].days,
                    call[p].key, Val(call[p].product_name), now))).keys
    /\ key_seq' = key_seq + 1
    /\ now' \in {now, now + 1}
    /\ call' = [call EXCEPT ![p] = Finish(@, Some("Added"))]
    /\ UNCHANGED << orders, sales_history, products, memory, faults >>

(***************************************************************************)
(* src/pannel.py: remove_key                                               *)
(***************************************************************************)
PannelRemoveKeyEnter(p, user, days, key, short) ==
    /\ Invokable(p)
    /\ LET c == [IdleCall EXCEPT !.handler = "pannel.remove_key",
                                 !.from_user = user, !.days = days, !.key = key]
       IN call' = [call EXCEPT ![p] =
                     IF user \notin ADMIN_IDS
                     THEN Finish(c, Some("Unauthorized"))
                     ELSE IF short \notin DOMAIN PRODUCT_SHORT_NAMES
                     THEN Finish(c, Some("InvalidProduct"))
                     ELSE [c EXCEPT !.product_name = Some(PRODUCT_SHORT_NAMES[short]),
                                    !.pc = "select"]]
    /\ UNCHANGED << keys, orders, sales_history, products, memory, key_seq, now, faults >>

PannelRemoveKeySelect(p) ==
    /\ call[p].handler = "pannel.remove_key" /\ call[p].pc = "select"
    /\ LET found == RemovableKeys(DB, call[p].days, call[p].key,
                                  Val(call[p].product_name))
       IN IF found = {}
          THEN call' = [call EXCEPT ![p] = Finish(@, Some("NotFoundOrUsed"))]
          ELSE \E k \in found :
                  call' = [call EXCEPT ![p] = [@ EXCEPT !.kr = Some(k),
                                                        !.pc = "delete"]]
    /\ UNCHANGED << keys, orders, sales_history, products, memory, key_seq, now, faults >>

PannelRemoveKeyDelete(p) ==
    /\ call[p].handler = "pannel.remove_key" /\ call[p].pc = "delete"
    /\ LET r == Execute(call[p], DB, DeleteKey(Val(call[p].kr).id))
       IN /\ call' = [call EXCEPT ![p] = Finish(r.c, Some("Removed"))]
          /\ SetDB(r.db)
    /\ UNCHANGED << products, memory, key_seq, now, faults >>

(***************************************************************************)
(* The specification.                                                      *)
(***************************************************************************)
KeyName(i) == CASE i = 1 -> "K1" [] i = 2 -> "K2" [] i = 3 -> "K3" [] OTHER -> "K4"

\* The stock the store holds when the bot starts: n unused keys of one plan,
\* added one after the other.
Inventory(n) == {KeyRow(i, 15, KeyName(i), "bgmi loader", i) : i \in 1 .. n}

Init ==
    /\ \E n \in 0 .. MaxKeys :
          /\ keys = Inventory(n)
          /\ key_seq = n
          /\ now = n + 1
    /\ orders = << >>
    /\ sales_history = << >>
    /\ products = ProductRows
    /\ call = [p \in CallIds |-> IdleCall]
    /\ faults = 0
    /\ PRODUCTS = [q \in Procs |-> ActiveProducts(ProductRows)]
    /\ user_data = [u \in Buyers |-> EmptySession]
    /\ conv = [u \in Buyers |-> IdleConv]
    /\ admin = [q \in Procs |-> IdleAdmin]

Next ==
    \/ \E u \in Buyers, pr \in ProductInputs, d \in RacePlans : PaymentProof(u, pr, d)
    \/ \E p \in CallIds :
          \/ \E u \in ADMIN_IDS, o \in OrderIds :
                \/ ApproveEnter(p, u, o)
                \/ RejectEnter(p, u, o)
          \/ \E u \in ADMIN_IDS, d \in DaysInputs, k \in KeyInputs, s \in ShortInputs :
                \/ AddKeyEnter(p, u, d, k, s)
                \/ RemoveKeyEnter(p, u, d, k, s)
          \/ ApproveFetch(p) \/ ApproveSelect(p) \/ ApproveBegin(p)
          \/ ApproveExecute(p) \/ ApproveCommit(p) \/ ApproveNotify(p)
          \/ RejectFetch(p) \/ RejectUpdate(p) \/ RejectNotify(p)
          \/ AddKeyExists(p) \/ AddKeyInsert(p)
          \/ RemoveKeySelect(p) \/ RemoveKeyDelete(p)

\* Concurrent handler invocations over a store that raises no error.
Spec == Init /\ [][Next]_vars

\* The decisions over a store that may raise errors.
NextFault ==
    \/ \E u \in Buyers, pr \in ProductInputs, d \in PlanInputs : PaymentProof(u, pr, d)
    \/ \E p \in 1 .. MaxFaultCalls :
          \/ \E u \in Operators, o \in OrderIds :
                \/ ApproveEnter(p, u, o)
                \/ RejectEnter(p, u, o)
          \/ ApproveFetch(p) \/ ApproveSelect(p) \/ ApproveBegin(p)
          \/ ApproveExecute(p) \/ ApproveCommit(p) \/ ApproveNotify(p)
          \/ ApproveConnError(p) \/ ApproveCommitLost(p) \/ ApproveStoreError(p)
          \/ RejectFetch(p) \/ RejectUpdate(p) \/ RejectNotify(p)
          \/ RejectStoreError(p)

FaultSpec == Init /\ [][NextFault]_vars

\* The handlers of src/bot.py invoked one after the other, each entered when
\* the one before has returned, over a store that raises no error.
NextSeq ==
    \/ \E u \in Buyers, pr \in ProductInputs, d \in PlanInputs : PaymentProof(u, pr, d)
    \/ \E p \in CallIds :
          \/ /\ AllReturned
             /\ \/ \E u \in Operators, o \in OrderIds :
                      \/ ApproveEnter(p, u, o)
                      \/ RejectEnter(p, u, o)
                \/ \E u \in ADMIN_IDS, d \in DaysInputs, k \in KeyInputs,
                      s \in ShortInputs :
                      \/ AddKeyEnter(p, u, d, k, s)
                      \/ RemoveKeyEnter(p, u, d, k, s)
          \/ ApproveFetch(p) \/ ApproveSelect(p) \/ ApproveBegin(p)
          \/ ApproveExecute(p) \/ ApproveCommit(p) \/ ApproveNotify(p)
          \/ RejectFetch(p) \/ RejectUpdate(p) \/ RejectNotify(p)
          \/ AddKeyExists(p) \/ AddKeyInsert(p)
          \/ RemoveKeySelect(p) \/ RemoveKeyDelete(p)

SeqSpec == Init /\ [][NextSeq]_vars

\* The decisions of both programs, src/bot.py and src/pannel.py, as concurrent
\* calls on one store that raises no error.
NextVariants ==
    \/ \E u \in Buyers, pr \in ProductInputs, d \in PlanInputs : PaymentProof(u, pr, d)
    \/ \E p \in 1 .. MaxVariantCalls :
          \/ \E u \in Operators, o \in OrderIds :
                \/ ApproveEnter(p, u, o)
                \/ RejectEnter(p, u, o)
                \/ PannelApproveEnter(p, u, o)
                \/ PannelRejectEnter(p, u, o)
          \/ ApproveFetch(p) \/ ApproveSelect(p) \/ ApproveBegin(p)
          \/ ApproveExecute(p) \/ ApproveCommit(p) \/ ApproveNotify(p)
          \/ RejectFetch(p) \/ RejectUpdate(p) \/ RejectNotify(p)
          \/ PannelApproveFetch(p) \/ PannelApproveSelect(p)
          \/ PannelApproveExecute(p) \/ PannelApproveNotify(p)
          \/ PannelRejectFetch(p) \/ PannelRejectUpdate(p) \/ PannelRejectNotify(p)

VariantSpec == Init /\ [][NextVariants]_vars

\* The decisions of src/bot.py as concurrent calls whose messages to the buyer
\* and to the operator may fail.
NextNotify ==
    \/ \E u \in Buyers, pr \in ProductInputs, d \in PlanInputs : PaymentProof(u, pr, d)
    \/ \E p \in 1 .. MaxNotifyCalls :
          \/ \E u \in ADMIN_IDS, o \in OrderIds :
                \/ ApproveEnter(p, u, o)
                \/ RejectEnter(p, u, o)
          \/ ApproveFetch(p) \/ ApproveSelect(p) \/ ApproveBegin(p)
          \/ ApproveExecute(p) \/ ApproveCommit(p) \/ ApproveNotify(p)
          \/ RejectFetch(p) \/ RejectUpdate(p) \/ RejectNotify(p)
          \/ \E what \in Notifications :
                \/ ApproveNotifyFailed(p, what)
                \/ RejectNotifyFailed(p, what)

NotifySpec == Init /\ [][NextNotify]_vars

\* The key commands with every plan and product as input, next to approvals
\* that consume keys: add_key of src/bot.py, remove_key of both programs.
NextKeys ==
    \/ \E u \in Buyers, pr \in ProductInputs, d \in RacePlans : PaymentProof(u, pr, d)
    \/ \E p \in 1 .. MaxKeyCalls :
          \/ \E u \in ADMIN_IDS, o \in OrderIds : ApproveEnter(p, u, o)
          \/ \E u \in ADMIN_IDS, d \in KeyDaysInputs, k \in KeyInputs,
                s \in KeyShortInputs :
                \/ AddKeyEnter(p, u, d, k, s)
                \/ RemoveKeyEnter(p, u, d, k, s)
                \/ PannelRemoveKeyEnter(p, u, d, k, s)
          \/ ApproveFetch(p) \/ ApproveSelect(p) \/ ApproveBegin(p)
          \/ ApproveExecute(p) \/ ApproveCommit(p) \/ ApproveNotify(p)
          \/ AddKeyExists(p) \/ AddKeyInsert(p)
          \/ RemoveKeySelect(p) \/ RemoveKeyDelete(p)
          \/ PannelRemoveKeySelect(p) \/ PannelRemoveKeyDelete(p)

KeySpec == Init /\ [][NextKeys]_vars

\* src/pannel.py on its own: its decisions, whose store statements may fail,
\* and its key commands, as concurrent calls.
NextPannel ==
    \/ \E u \in Buyers, pr \in ProductInputs, d \in RacePlans : PaymentProof(u, pr, d)
    \/ \E p \in 1 .. MaxPannelCalls :
          \/ \E u \in ADMIN_IDS, o \in OrderIds :
                \/ PannelApproveEnter(p, u, o)
                \/ PannelRejectEnter(p, u, o)
          \/ \E u \in ADMIN_IDS, d \in DaysInputs, k \in KeyInputs, s \in ShortInputs :
                \/ PannelAddKeyEnter(p, u, d, k, s)
                \/ PannelRemoveKeyEnter(p, u, d, k, s)
          \/ PannelApproveFetch(p) \/ PannelApproveSelect(p)
          \/ PannelApproveExecute(p) \/ PannelApproveNotify(p)
          \/ PannelApproveStoreError(p)
          \/ PannelRejectFetch(p) \/ PannelRejectUpdate(p) \/ PannelRejectNotify(p)
          \/ PannelAddKeyExists(p) \/ PannelAddKeyInsert(p)
          \/ PannelRemoveKeySelect(p) \/ PannelRemoveKeyDelete(p)

PannelSpec == Init /\ [][NextPannel]_vars

\* The buyer conversation next to the operators' approvals and add_key calls.
NextConv ==
    \/ \E u \in Buyers :
          \/ \E q \in Procs : start(u, q)
          \/ \E pr \in ConvProductInputs : product_selected(u, pr)
          \/ \E d \in ConvPlanInputs : plan_selected(u, d)
          \/ payment_proof(u)
          \/ cancel_cmd(u)
          \/ cancel_cb(u)
    \/ \E p \in 1 .. MaxConvCalls :
          \/ \E u \in ADMIN_IDS, o \in OrderIds : ApproveEnter(p, u, o)
          \/ \E u \in ADMIN_IDS, d \in KeyDaysInputs, k \in KeyInputs,
                s \in ShortInputs : AddKeyEnter(p, u, d, k, s)
          \/ ApproveFetch(p) \/ ApproveSelect(p) \/ ApproveBegin(p)
          \/ ApproveExecute(p) \/ ApproveCommit(p) \/ ApproveNotify(p)
          \/ AddKeyExists(p) \/ AddKeyInsert(p)

ConvSpec == Init /\ [][NextConv]_vars

\* The catalog handlers of the bot processes that share the store.
NextCatalog ==
    \E q \in Procs :
        \/ \E u \in Operators, n \in CatalogNames, s \in CatalogShorts :
              AdminConfirmEnter(q, u, n, s)
        \/ \E u \in Operators :
              \/ \E s \in CatalogShorts : AdminRemoveEnter(q, u, "short", s)
              \/ \E n \in CatalogNames : AdminRemoveEnter(q, u, "name", n)
        \/ AdminConfirmClash(q) \/ AdminConfirmExisting(q) \/ AdminConfirmWrite(q)
        \/ AdminRemoveWrite(q)
        \/ AdminLoad(q) \/ AdminAssign(q)

CatalogSpec == Init /\ [][NextCatalog]_vars

(***************************************************************************)
(* Vocabulary of the properties.                                           *)
(***************************************************************************)
Terminal == {"approved", "rejected"}
Decisions == {"approve_order", "reject_order"}
Returned(p) == call[p].pc = "done"
Reported(p, what) == call[p].outcome = Some(what)

\* The call was entered by an operator of ADMIN_IDS while its order was pending.
EnteredOnPending(p) ==
    /\ call[p].from_user \in ADMIN_IDS
    /\ call[p].entry # NULL
    /\ Val(call[p].entry).status = "pending"

\* The call was entered by an operator of ADMIN_IDS on a decided order.
EnteredOnTerminal(p) ==
    /\ call[p].handler \in Decisions
    /\ call[p].from_user \in ADMIN_IDS
    /\ call[p].entry # NULL
    /\ Val(call[p].entry).status \in Terminal

SamePlan(a, b) ==
    a.product_name = b.product_name /\ a.duration_days = b.duration_days

\* The used key rows of the order's plan that carry the order's key_assigned.
ConsumedFor(db, o) ==
    {k \in db.keys : /\ SamePlan(k, db.orders[o]) /\ k.is_used
                     /\ Some(k.key_value) = db.orders[o].key_assigned}

\* The sales_history rows that mirror the order and its key.
SalesFor(db, o) ==
    {i \in DOMAIN db.sales :
        /\ db.sales[i].user_id = db.orders[o].user_id
        /\ db.sales[i].username = db.orders[o].username
        /\ SamePlan(db.sales[i], db.orders[o])
        /\ db.sales[i].amount = db.orders[o].amount
        /\ Some(db.sales[i].key_given) = db.orders[o].key_assigned}

(***************************************************************************)
(* C1  No double allocation: when approve_order calls, entered while their *)
(* distinct orders of one plan were pending and the store held exactly one *)
(* key of that plan, have all returned, exactly one order is approved with *)
(* that key and every other is pending and was reported out of stock.      *)
(***************************************************************************)
C1_NoDoubleAllocation ==
    LET A == {p \in CallIds : Returned(p)}
    IN  ( /\ AllReturned
          /\ Cardinality(A) >= 2
          /\ \A p \in A : call[p].handler = "approve_order" /\ EnteredOnPending(p)
          /\ \A p, q \in A : p # q => call[p].order_id # call[q].order_id
          /\ \A p, q \in A : SamePlan(Val(call[p].entry), Val(call[q].entry))
          /\ \A p \in A :
                Cardinality({k \in keys : SamePlan(k, Val(call[p].entry))}) = 1 )
        => \E w \in A :
              /\ orders[call[w].order_id].status = "approved"
              /\ Cardinality(ConsumedFor(DB, call[w].order_id)) = 1
              /\ Reported(w, "Approved")
              /\ \A p \in A \ {w} :
                    /\ orders[call[p].order_id].status = "pending"
                    /\ Reported(p, "OutOfStock")

(***************************************************************************)
(* C2  No double decision: when decisions entered on the same pending      *)
(* order have all returned, none of them out of stock, exactly one of them *)
(* has changed the order and every other one reported the order as already *)
(* in the status the winner set.                                           *)
(***************************************************************************)
C2_NoDoubleDecision ==
    \A o \in DOMAIN orders :
        LET D == {p \in CallIds : /\ Returned(p)
                                  /\ call[p].handler \in Decisions
                                  /\ call[p].order_id = o
                                  /\ EnteredOnPending(p)}
            W == {p \in D : Reported(p, "Approved") \/ Reported(p, "Rejected")}
        IN  ( /\ AllReturned
              /\ Cardinality(D) >= 2
              /\ \A p \in D : ~Reported(p, "OutOfStock") )
            => /\ Cardinality(W) = 1
               /\ \A p \in D \ W :
                     call[p].outcome = << "AlreadyDecided", orders[o].status >>

(***************************************************************************)
(* C3  At most one order per credential: no two orders carry the same      *)
(* key_assigned, and no order has been approved by more than one call.     *)
(***************************************************************************)
C3_OneOrderPerCredential ==
    /\ \A a, b \in DOMAIN orders :
          (a # b /\ orders[a].key_assigned # NULL)
             => orders[a].key_assigned # orders[b].key_assigned
    /\ \A o \in DOMAIN orders :
          Cardinality({p \in CallIds : /\ call[p].handler = "approve_order"
                                       /\ call[p].order_id = o
                                       /\ Reported(p, "Approved")}) <= 1

(***************************************************************************)
(* C4  Consumption/approval coupling: every approved order has exactly one *)
(* used key row of its plan carrying its key_assigned, and exactly one     *)
(* sales_history row mirroring it.                                         *)
(***************************************************************************)
C4_Coupling ==
    \A o \in DOMAIN orders :
        orders[o].status = "approved"
           => /\ Cardinality(ConsumedFor(DB, o)) = 1
              /\ Cardinality(SalesFor(DB, o)) = 1

(***************************************************************************)
(* C5  key_assigned is non-null if and only if status is 'approved'.       *)
(***************************************************************************)
C5_KeyIffApproved ==
    \A o \in DOMAIN orders :
        (orders[o].key_assigned # NULL) <=> (orders[o].status = "approved")

(***************************************************************************)
(* C6  Status transitions are monotone: a status changes only from         *)
(* pending, and only to approved or rejected.                              *)
(***************************************************************************)
C6_Monotone ==
    [][\A o \in DOMAIN orders :
          orders'[o].status # orders[o].status
             => /\ orders[o].status = "pending"
                /\ orders'[o].status \in Terminal]_vars

(***************************************************************************)
(* C7  Idempotent terminal states: a decision entered by an operator on an *)
(* order that is already approved or rejected changes no order, key or     *)
(* sales row in any of its steps, and, unless the store fails it, reports  *)
(* the order as already decided, in the order's current status when no     *)
(* other call has changed the order meanwhile.                             *)
(***************************************************************************)
C7_NoChange ==
    \A p \in CallIds :
        (EnteredOnTerminal(p) /\ call'[p] # call[p]) => DB' = DB

C7_Reports ==
    \A p \in CallIds :
        (EnteredOnTerminal(p) /\ Returned(p))
           => \/ Reported(p, "Error") \/ Reported(p, "Raised")
              \/ /\ \E st \in Terminal : call[p].outcome = << "AlreadyDecided", st >>
                 /\ orders[call[p].order_id] = Val(call[p].entry)
                       => call[p].outcome =
                             << "AlreadyDecided", Val(call[p].entry).status >>

\* C7  Idempotent terminal states: no step of a decision entered on a decided
\* order changes the store, and what it reports is that the order is decided.
C7_IdempotentTerminal == [][C7_NoChange]_vars /\ []C7_Reports

\* An approval entered on a rejected order has returned "already rejected":
\* the order is still rejected without a key, while a key of its plan is free.
C7_Witness ==
    \E p \in CallIds :
        /\ call[p].handler = "approve_order" /\ Returned(p)
        /\ EnteredOnTerminal(p)
        /\ call[p].outcome = << "AlreadyDecided", "rejected" >>
        /\ orders[call[p].order_id].status = "rejected"
        /\ orders[call[p].order_id].key_assigned = NULL
        /\ AvailableKeys(DB, orders[call[p].order_id].duration_days,
                         orders[call[p].order_id].product_name) # {}
        /\ sales_history = << >>

(***************************************************************************)
(* C8  Assignment stability: once an order is approved with key K, in      *)
(* every later state its key_assigned is K, K's key row is used and the    *)
(* order has exactly one sales record for K.                               *)
(***************************************************************************)
C8_AssignmentStable ==
    [][\A o \in DOMAIN orders :
          orders[o].status = "approved"
             => /\ orders'[o].key_assigned = orders[o].key_assigned
                /\ Cardinality(ConsumedFor(DB', o)) = 1
                /\ Cardinality(SalesFor(DB', o)) = 1]_vars

(***************************************************************************)
(* C9  All-or-nothing allocation.  As amended: every step of approve_order *)
(* either leaves the three tables as they are or is the commit, which      *)
(* marks the selected key used, sets the order approved with key_assigned, *)
(* approved_at and approved_by, and adds the sales row, all at once; a     *)
(* store error raised before the commit has been applied leaves the tables *)
(* unchanged.                                                              *)
(***************************************************************************)
StoreErrorIn(p) == faults' = faults + 1 /\ call'[p] # call[p]

AllThreeWrites(p) ==
    /\ keys' = {IF k.id = Val(call[p].kr).id THEN [k EXCEPT !.is_used = TRUE] ELSE k
                  : k \in keys}
    /\ orders' = [orders EXCEPT ![call[p].order_id] =
                     [@ EXCEPT !.status = "approved",
                               !.key_assigned = call[p].key_value,
                               !.approved_at = Some(now),
                               !.approved_by = Some(call[p].from_user)]]
    /\ sales_history' = Append(sales_history,
                               SaleRow(Val(call[p].order), Val(call[p].key_value), now))

\* C9  All-or-nothing allocation: a step of approve_order changes nothing or
\* is the commit that applies the three writes together.
C9_AllOrNothing ==
    [][\A p \in CallIds :
          (call[p].handler = "approve_order" /\ call'[p] # call[p])
             => \/ DB' = DB
                \/ call[p].pc = "commit" /\ AllThreeWrites(p)]_vars

\* C9  as stated: the three writes are applied together or not at all, and
\* whenever a store error is raised at any point of an attempt, that step has
\* left no key used, no order approved and no sales row.
C9_ErrorLeavesNothing ==
    [][\A p \in CallIds :
          (call[p].handler = "approve_order" /\ call'[p] # call[p])
             => /\ \/ DB' = DB
                   \/ call[p].pc = "commit" /\ AllThreeWrites(p)
                /\ StoreErrorIn(p) => DB' = DB]_vars

\* An attempt has failed on its third write, after two writes were sent, and
\* is about to start over: the key is unused, the order pending, no sale.
C9_Witness ==
    \E p \in CallIds :
        /\ call[p].handler = "approve_order"
        /\ call[p].failed_at = "insert_sale" /\ call[p].pc = "fetch"
        /\ call[p].attempt = 1
        /\ orders[call[p].order_id].status = "pending"
        /\ orders[call[p].order_id].key_assigned = NULL
        /\ \A k \in keys : ~k.is_used
        /\ sales_history = << >>

(***************************************************************************)
(* C10  FIFO tie-break: the key approve_order selects is an unused key of  *)
(* the order's plan with the earliest added_at, the approval assigns that  *)
(* key, and so no unused key of a plan is older than a used one.           *)
(***************************************************************************)
C10_SelectsOldest ==
    \A p \in CallIds :
        (call[p].handler = "approve_order" /\ call[p].pc = "select"
           /\ call'[p].pc = "begin")
        => LET o == Val(call[p].order)
               k == Val(call'[p].kr)
           IN /\ k \in keys /\ SamePlan(k, o) /\ ~k.is_used
              /\ \A j \in keys :
                    (SamePlan(j, o) /\ ~j.is_used) => k.added_at <= j.added_at

C10_AssignsSelected ==
    \A p \in CallIds :
        (call[p].handler = "approve_order" /\ call[p].pc = "commit"
           /\ call'[p] # call[p] /\ orders' # orders)
        => orders'[call[p].order_id].key_assigned = Some(Val(call[p].kr).key_value)

C10_OldestFirst ==
    \A k, j \in keys :
        (k.is_used /\ SamePlan(j, k) /\ j.added_at < k.added_at) => j.is_used

\* C10  FIFO tie-break: selection takes the earliest added_at among the unused
\* keys of the plan, the commit assigns the selected key, oldest keys go first.
C10_FIFO == [][C10_SelectsOldest /\ C10_AssignsSelected]_vars /\ []C10_OldestFirst

\* An order is approved with the older of two keys of its plan and the
\* younger one is still unused.
C10_Witness ==
    \E o \in DOMAIN orders : \E k, j \in keys :
        /\ orders[o].status = "approved"
        /\ orders[o].key_assigned = Some(k.key_value)
        /\ SamePlan(k, orders[o]) /\ k.is_used
        /\ SamePlan(j, k) /\ ~j.is_used /\ k.added_at < j.added_at

(***************************************************************************)
(* Vocabulary of the sequential and two-program properties.                *)
(***************************************************************************)
Invoked == {p \in CallIds : call[p].pc # "idle"}
Approvals == {"approve_order", "pannel.approve_order"}
Rejections == {"reject_order", "pannel.reject_order"}

\* The unused keys of an order's plan, read off the table.
UnusedFor(o) == {k \in keys : SamePlan(k, o) /\ ~k.is_used}

(***************************************************************************)
(* C11  Sequential exhaustion: when the only calls so far are approvals,   *)
(* made one after the other, of distinct pending orders of one plan which  *)
(* has k keys, the first k of them have approved their orders with a key   *)
(* each, and every later one has reported out of stock and left its order  *)
(* as it was, pending without a key.                                       *)
(***************************************************************************)
C11_SequentialExhaustion ==
    ( /\ Invoked # {}
      /\ \A p \in Invoked :
            /\ Returned(p) /\ call[p].handler = "approve_order"
            /\ EnteredOnPending(p)
            /\ SamePlan(Val(call[p].entry), Val(call[1].entry))
      /\ \A p, q \in Invoked : p # q => call[p].order_id # call[q].order_id )
    => LET k == Cardinality({x \in keys : SamePlan(x, Val(call[1].entry))})
       IN  /\ \A p \in Invoked :
                IF p <= k
                THEN /\ Reported(p, "Approved")
                     /\ orders[call[p].order_id].status = "approved"
                     /\ Cardinality(ConsumedFor(DB, call[p].order_id)) = 1
                ELSE /\ Reported(p, "OutOfStock")
                     /\ orders[call[p].order_id] = Val(call[p].entry)
           /\ \A p, q \in Invoked :
                (p # q /\ p <= k /\ q <= k)
                   => orders[call[p].order_id].key_assigned
                         # orders[call[q].order_id].key_assigned

\* One key, two orders: the first approval took the key, the second was told
\* out of stock and its order is pending.
C11_Witness ==
    /\ Cardinality(keys) = 1
    /\ call[1].handler = "approve_order" /\ Reported(1, "Approved")
    /\ call[2].handler = "approve_order" /\ Reported(2, "OutOfStock")
    /\ call[1].order_id # call[2].order_id
    /\ SamePlan(Val(call[1].entry), Val(call[2].entry))
    /\ orders[call[1].order_id].status = "approved"
    /\ orders[call[2].order_id].status = "pending"
    /\ orders[call[2].order_id].key_assigned = NULL

(***************************************************************************)
(* C12  Out of stock leaves state unchanged: approve_order, of either      *)
(* program, reports out of stock exactly when its key query finds no       *)
(* unused key of the order's plan; no step of the call up to then changes  *)
(* a row, and a call that is alone leaves the order pending without a key, *)
(* the keys as they were and no sales row.                                 *)
(***************************************************************************)
C12_Step ==
    \A p \in CallIds :
        (call[p].handler \in Approvals /\ call'[p] # call[p])
        => /\ call[p].pc \in {"fetch", "select"} => DB' = DB
           /\ call'[p].outcome = Some("OutOfStock")
                 => /\ call[p].pc = "select"
                    /\ UnusedFor(Val(call[p].order)) = {}
           /\ (call[p].pc = "select" /\ UnusedFor(Val(call[p].order)) = {})
                 => /\ call'[p].pc = "done"
                    /\ call'[p].outcome = Some("OutOfStock")

C12_Left ==
    \A p \in CallIds :
        ( /\ call[p].handler \in Approvals /\ Reported(p, "OutOfStock")
          /\ Invoked = {p} )
        => /\ orders[call[p].order_id].status = "pending"
           /\ orders[call[p].order_id].key_assigned = NULL
           /\ keys = Inventory(Cardinality(keys))
           /\ sales_history = << >>

\* C12  Out of stock leaves state unchanged, as the step and what it leaves.
C12_OutOfStockUnchanged == [][C12_Step]_vars /\ []C12_Left

\* An approval has reported out of stock for an order of a plan without keys
\* while unused keys of another plan are in the store.
C12_Witness ==
    \E p \in CallIds :
        /\ call[p].handler \in Approvals /\ Reported(p, "OutOfStock")
        /\ orders[call[p].order_id].status = "pending"
        /\ orders[call[p].order_id].key_assigned = NULL
        /\ \E k \in keys : ~k.is_used
        /\ sales_history = << >>

(***************************************************************************)
(* C13  Retry after replenishment: after an approval that reported out of  *)
(* stock and an add_key of a key of the order's plan, a further approval   *)
(* of the same order approves it with the key just added.                  *)
(***************************************************************************)
C13_RetryAfterReplenishment ==
    ( /\ call[1].handler = "approve_order" /\ Reported(1, "OutOfStock")
      /\ EnteredOnPending(1)
      /\ Val(call[1].entry).product_name \in ProductInputs
      /\ Val(call[1].entry).duration_days \in DaysInputs
      /\ call[2].handler = "add_key" /\ Reported(2, "Added")
      /\ call[3].handler = "approve_order" /\ Returned(3)
      /\ call[3].from_user \in ADMIN_IDS
      /\ call[3].order_id = call[1].order_id
      /\ Invoked = {1, 2, 3} )
    => /\ Reported(3, "Approved")
       /\ orders[call[3].order_id].status = "approved"
       /\ \E k \in keys :
             /\ k.id = key_seq /\ k.is_used
             /\ SamePlan(k, orders[call[3].order_id])
             /\ orders[call[3].order_id].key_assigned = Some(k.key_value)
       /\ Cardinality(SalesFor(DB, call[3].order_id)) = 1

\* The three calls have been made: out of stock, key added, order approved.
C13_Witness ==
    /\ call[1].handler = "approve_order" /\ Reported(1, "OutOfStock")
    /\ call[2].handler = "add_key" /\ Reported(2, "Added")
    /\ call[3].handler = "approve_order" /\ Reported(3, "Approved")
    /\ call[3].order_id = call[1].order_id
    /\ orders[call[3].order_id].status = "approved"
    /\ orders[call[3].order_id].key_assigned # NULL

(***************************************************************************)
(* C14  Bounded retry of approve: a call is never beyond its third         *)
(* attempt; a further attempt starts only in a step in which the store     *)
(* raised an error, and starts with the fetch of the order; an attempt     *)
(* that finds the order missing, already decided or out of stock ends the  *)
(* call with that report.                                                  *)
(***************************************************************************)
C14_AttemptBound ==
    \A p \in CallIds : call[p].attempt \in 0 .. max_retries - 1

C14_Step ==
    \A p \in CallIds :
        (call[p].handler = "approve_order" /\ call'[p] # call[p])
        => /\ call'[p].attempt > call[p].attempt
                 => /\ call'[p].attempt = call[p].attempt + 1
                    /\ faults' = faults + 1
                    /\ call'[p].pc = "fetch"
           /\ (faults' = faults /\ call[p].pc = "fetch")
                 => IF call[p].order_id \notin DOMAIN orders
                    THEN call'[p].pc = "done"
                         /\ call'[p].outcome = Some("OrderNotFound")
                    ELSE orders[call[p].order_id].status # "pending"
                         => /\ call'[p].pc = "done"
                            /\ call'[p].outcome =
                                 << "AlreadyDecided", orders[call[p].order_id].status >>
           /\ ( /\ faults' = faults /\ call[p].pc = "select"
                /\ UnusedFor(Val(call[p].order)) = {} )
                 => /\ call'[p].pc = "done"
                    /\ call'[p].outcome = Some("OutOfStock")

\* C14  Bounded retry of approve, as the bound and the steps.
C14_BoundedRetry == []C14_AttemptBound /\ [][C14_Step]_vars

\* A call is in its third attempt after two store errors, and its third
\* attempt has found the order pending.
C14_Witness ==
    \E p \in CallIds :
        /\ call[p].handler = "approve_order"
        /\ call[p].attempt = max_retries - 1
        /\ call[p].pc = "select"
        /\ faults = max_retries - 1

(***************************************************************************)
(* C15  Bounded retry of reject: a reject_order call on a pending order    *)
(* that meets a single store error, with no other call made, has rejected  *)
(* the order when it returns.                                              *)
(***************************************************************************)
C15_RejectRetried ==
    \A p \in CallIds :
        ( /\ call[p].handler = "reject_order" /\ Returned(p)
          /\ EnteredOnPending(p)
          /\ Invoked = {p}
          /\ call[p].failed_at # "" /\ faults = 1 )
        => /\ Reported(p, "Rejected")
           /\ orders[call[p].order_id].status = "rejected"

(***************************************************************************)
(* C16  Retry exhaustion.  As amended: a store error in the third attempt  *)
(* ends approve_order with the error report, and that step changes no row  *)
(* unless it is a commit the store applied; a call made alone on a pending *)
(* order that met three store errors has left the order pending without a  *)
(* key, no key used and no sales row, or else, when the store had applied  *)
(* a commit of it, the order approved with its one used key and one sale.  *)
(***************************************************************************)
C16_LastAttempt ==
    \A p \in CallIds :
        ( /\ call[p].handler = "approve_order"
          /\ call[p].attempt = max_retries - 1
          /\ StoreErrorIn(p) )
        => /\ call'[p].pc = "done"
           /\ call'[p].outcome = Some("Error")
           /\ \/ DB' = DB
              \/ call[p].pc = "commit" /\ AllThreeWrites(p)

\* The call made alone on a pending order that three store errors have ended.
Exhausted(p) ==
    /\ call[p].handler = "approve_order" /\ Returned(p)
    /\ EnteredOnPending(p)
    /\ Invoked = {p}
    /\ faults = max_retries

NothingLeft(p) ==
    /\ orders[call[p].order_id] = Val(call[p].entry)
    /\ \A k \in keys : ~k.is_used
    /\ sales_history = << >>

C16_Left ==
    \A p \in CallIds :
        Exhausted(p)
        => /\ Reported(p, "Error")
           /\ \/ NothingLeft(p)
              \/ /\ orders[call[p].order_id].status = "approved"
                 /\ Cardinality(ConsumedFor(DB, call[p].order_id)) = 1
                 /\ Cardinality({k \in keys : k.is_used}) = 1
                 /\ Cardinality(SalesFor(DB, call[p].order_id)) = 1
                 /\ Len(sales_history) = 1

\* C16  Retry exhaustion, as amended: the last attempt's step and what the
\* call leaves.
C16_Exhaustion == [][C16_LastAttempt]_vars /\ []C16_Left

\* C16  as stated: a call that three store errors have ended has reported
\* the failure and left the order pending without a key, no key used and no
\* sales row.
C16_ExhaustionLeavesPending ==
    \A p \in CallIds :
        Exhausted(p) => Reported(p, "Error") /\ NothingLeft(p)

\* Three store errors have ended a call whose third attempt got as far as
\* its last write: the order is pending, its key unused, no sale.
C16_Witness ==
    \E p \in CallIds :
        /\ Exhausted(p) /\ Reported(p, "Error")
        /\ call[p].failed_at = "insert_sale"
        /\ NothingLeft(p)
        /\ UnusedFor(orders[call[p].order_id]) # {}

(***************************************************************************)
(* C17  A store error raised while the transaction of an attempt before    *)
(* the last runs starts the next attempt.                                  *)
(***************************************************************************)
C17_ConflictRetried ==
    [][\A p \in CallIds :
          ( /\ call[p].handler = "approve_order"
            /\ call[p].pc \in {"mark_key", "set_order", "insert_sale", "commit"}
            /\ call[p].attempt < max_retries - 1
            /\ StoreErrorIn(p) )
          => /\ call'[p].pc = "fetch"
             /\ call'[p].attempt = call[p].attempt + 1]_vars

(***************************************************************************)
(* C18  reject_order only mutates the named order's status: no step of a   *)
(* reject_order call, of either program, changes the keys or the sales,    *)
(* adds or removes an order, or changes an order other than by setting the *)
(* status of the order it names to 'rejected'; the number of available     *)
(* keys of every product and duration is the same after the step.          *)
(***************************************************************************)
C18_RejectFrame ==
    [][\A p \in CallIds :
          (call[p].handler \in Rejections /\ call'[p] # call[p])
          => /\ keys' = keys
             /\ sales_history' = sales_history
             /\ DOMAIN orders' = DOMAIN orders
             /\ \A o \in DOMAIN orders :
                   \/ orders'[o] = orders[o]
                   \/ /\ o = call[p].order_id
                      /\ orders'[o] = [orders[o] EXCEPT !.status = "rejected"]
             /\ \A r \in products, d \in DEFAULT_PLANS :
                   get_available_keys_count(DB', r.name, d)
                      = get_available_keys_count(DB, r.name, d)]_vars

\* A rejection has returned: its order is rejected without a key, another
\* order is still pending, a key of the plan is still unused, no sale.
C18_Witness ==
    \E p \in CallIds : \E o \in DOMAIN orders :
        /\ call[p].handler \in Rejections /\ Reported(p, "Rejected")
        /\ orders[call[p].order_id].status = "rejected"
        /\ orders[call[p].order_id].key_assigned = NULL
        /\ o # call[p].order_id /\ orders[o].status = "pending"
        /\ UnusedFor(orders[call[p].order_id]) # {}
        /\ sales_history = << >>

(***************************************************************************)
(* C19  Unauthorized callers cannot decide: a decision invoked by a user   *)
(* outside ADMIN_IDS returns in the step that enters it, reporting that    *)
(* the user is not authorized; that step changes no row and the call never *)
(* reaches a statement of the store.                                       *)
(***************************************************************************)
C19_Enter ==
    \A p \in CallIds :
        ( /\ call[p].pc = "idle" /\ call'[p].pc # "idle"
          /\ call'[p].handler \in Decisions
          /\ call'[p].from_user \notin ADMIN_IDS )
        => /\ call'[p].pc = "done"
           /\ call'[p].outcome = Some("Unauthorized")
           /\ DB' = DB

C19_Refused ==
    \A p \in Invoked :
        (call[p].handler \in Decisions /\ call[p].from_user \notin ADMIN_IDS)
        => Returned(p) /\ Reported(p, "Unauthorized")

\* C19  Unauthorized callers cannot decide, as the entering step and the
\* state of such a call ever after.
C19_Unauthorized == [][C19_Enter]_vars /\ []C19_Refused

\* Both decisions have been refused to a user outside ADMIN_IDS on a pending
\* order for which a key is available: the order is pending, the key unused.
C19_Witness ==
    /\ call[1].handler = "approve_order" /\ Reported(1, "Unauthorized")
    /\ call[2].handler = "reject_order" /\ Reported(2, "Unauthorized")
    /\ call[1].order_id = call[2].order_id
    /\ call[1].from_user \notin ADMIN_IDS /\ call[2].from_user \notin ADMIN_IDS
    /\ call[1].order_id \in DOMAIN orders
    /\ orders[call[1].order_id].status = "pending"
    /\ orders[call[1].order_id].key_assigned = NULL
    /\ UnusedFor(orders[call[1].order_id]) # {}
    /\ sales_history = << >>

(***************************************************************************)
(* C20  Order not found: a decision whose fetch finds no order of the      *)
(* given id returns with the order-not-found report, and that step changes *)
(* no row; a call made alone that reported it has left every order         *)
(* pending without a key, the keys as they were and no sales row.          *)
(***************************************************************************)
C20_Fetch ==
    \A p \in CallIds :
        ( /\ call[p].handler \in Decisions /\ call[p].pc = "fetch"
          /\ call'[p] # call[p] /\ faults' = faults
          /\ call[p].order_id \notin DOMAIN orders )
        => /\ call'[p].pc = "done"
           /\ call'[p].outcome = Some("OrderNotFound")
           /\ DB' = DB

C20_Left ==
    \A p \in CallIds :
        ( /\ call[p].handler \in Decisions /\ Reported(p, "OrderNotFound")
          /\ Invoked = {p} )
        => /\ \A o \in DOMAIN orders :
                 orders[o].status = "pending" /\ orders[o].key_assigned = NULL
           /\ keys = Inventory(Cardinality(keys))
           /\ sales_history = << >>

\* C20  Order not found, as the step that finds no order and what it leaves.
C20_OrderNotFound == [][C20_Fetch]_vars /\ []C20_Left

\* Both decisions have reported order not found for an id that no order has,
\* while another order is pending and a key of its plan is unused.
C20_Witness ==
    /\ call[1].handler = "approve_order" /\ Reported(1, "OrderNotFound")
    /\ call[2].handler = "reject_order" /\ Reported(2, "OrderNotFound")
    /\ call[1].order_id \notin DOMAIN orders
    /\ call[2].order_id \notin DOMAIN orders
    /\ \E o \in DOMAIN orders :
          /\ orders[o].status = "pending" /\ orders[o].key_assigned = NULL
          /\ UnusedFor(orders[o]) # {}
    /\ sales_history = << >>

(***************************************************************************)
(* C21  Notification independence: a step in which a message to the buyer  *)
(* or to the operator fails changes no row; a call made alone whose        *)
(* message failed after its commit has left the order approved with its    *)
(* key used and its sales row present, and one whose message failed after  *)
(* its rejection has left the order rejected.                              *)
(***************************************************************************)
C21_Step ==
    \A p \in CallIds :
        ( /\ call[p].handler \in Decisions /\ call[p].pc = "notify"
          /\ call'[p] # call[p] )
        => DB' = DB

NotifyFailed(p) ==
    /\ call[p].handler \in Decisions /\ Returned(p)
    /\ call[p].failed_at \in Notifications
    /\ Invoked = {p}

C21_Left ==
    \A p \in CallIds :
        NotifyFailed(p)
        => IF call[p].handler = "approve_order"
           THEN /\ orders[call[p].order_id].status = "approved"
                /\ Cardinality(ConsumedFor(DB, call[p].order_id)) = 1
                /\ Cardinality(SalesFor(DB, call[p].order_id)) = 1
           ELSE /\ orders[call[p].order_id].status = "rejected"
                /\ orders[call[p].order_id].key_assigned = NULL

\* C21  Notification independence, as the failing step and what it leaves.
C21_NotificationIndependence == [][C21_Step]_vars /\ []C21_Left

\* The buyer's message of a committed approval has failed: the call reported
\* the approval, the order is approved, its key used, its sale recorded.
C21_Witness ==
    \E p \in CallIds :
        /\ NotifyFailed(p) /\ call[p].handler = "approve_order"
        /\ call[p].failed_at = "send_message" /\ Reported(p, "Approved")
        /\ orders[call[p].order_id].status = "approved"
        /\ Cardinality(ConsumedFor(DB, call[p].order_id)) = 1
        /\ Len(sales_history) = 1

(***************************************************************************)
(* C22  A consumed credential never becomes available again: no step       *)
(* changes a key's is_used from TRUE to FALSE, approve_order's selection   *)
(* never returns a used key, and the availability count counts unused keys *)
(* only.                                                                   *)
(***************************************************************************)
C22_NeverUnmarked ==
    \A k \in keys : k.is_used =>
        \A j \in keys' : j.id = k.id => j.is_used

C22_SelectsUnused ==
    \A p \in CallIds :
        ( /\ call[p].handler = "approve_order" /\ call[p].pc = "select"
          /\ call'[p].kr # NULL )
        => /\ Val(call'[p].kr) \in keys
           /\ ~Val(call'[p].kr).is_used

C22_CountsUnused ==
    \A pr \in ProductInputs, d \in PlanInputs :
        get_available_keys_count(DB, pr, d) =
            Cardinality({k \in keys : /\ k.product_name = pr
                                      /\ k.duration_days = d
                                      /\ k.is_used = FALSE})

\* C22  A consumed credential never becomes available again.
C22_ConsumedStaysConsumed ==
    /\ [][C22_NeverUnmarked /\ C22_SelectsUnused]_vars
    /\ []C22_CountsUnused

\* One key is used, and a later approval has selected the other key while the
\* count of the plan is one.
C22_Witness ==
    \E k \in keys, p \in CallIds :
        /\ k.is_used
        /\ call[p].handler = "approve_order" /\ call[p].pc = "begin"
        /\ Val(call[p].kr).id # k.id
        /\ Val(call[p].kr).product_name = k.product_name
        /\ Val(call[p].kr).duration_days = k.duration_days
        /\ get_available_keys_count(DB, k.product_name, k.duration_days) = 1
        /\ Cardinality(keys) = 2

(***************************************************************************)
(* C23  Credential value uniqueness (src/bot.py): an add_key whose check   *)
(* finds the value, under any product or duration, reports the duplicate;  *)
(* no step of add_key adds a row while the value is in the table; and in   *)
(* every state no two key rows have the same key_value.                    *)
(***************************************************************************)
C23_Unique ==
    \A k \in keys, j \in keys : k.key_value = j.key_value => k = j

C23_Check ==
    \A p \in CallIds :
        ( /\ call[p].handler = "add_key" /\ call[p].pc = "exists"
          /\ call'[p] # call[p]
          /\ \E k \in keys : k.key_value = call[p].key )
        => /\ call'[p].pc = "done" /\ call'[p].outcome = Some("Duplicate")
           /\ keys' = keys

C23_Insert ==
    \A p \in CallIds :
        ( /\ call[p].handler = "add_key"
          /\ call'[p] # call[p]
          /\ \E k \in keys : k.key_value = call[p].key )
        => /\ keys' = keys
           /\ call'[p].outcome # Some("Added")

C24_Step ==
    \A k \in keys :
        (\A j \in keys' : j.id # k.id) => ~k.is_used

\* C24  A consumed credential is never physically deleted.
C24_ConsumedNeverDeleted == [][C24_Step]_vars

(***************************************************************************)
(* C25  remove_key contract, for both programs: a call that reports the    *)
(* removal has deleted exactly one row, whose duration, value and product  *)
(* match its arguments and which was unused when it was deleted; every     *)
(* other return of remove_key leaves the keys table unchanged.             *)
(***************************************************************************)
C25_Step ==
    \A p \in CallIds :
        ( /\ call[p].handler \in {"remove_key", "pannel.remove_key"}
          /\ InFlight(p)
          /\ call'[p].pc = "done" )
        => IF call'[p].outcome = Some("Removed")
           THEN \E k \in keys :
                   /\ k.duration_days = call[p].days
                   /\ k.key_value = call[p].key
                   /\ k.product_name = Val(call[p].product_name)
                   /\ ~k.is_used
                   /\ keys' = keys \ {k}
           ELSE /\ call'[p].outcome = Some("NotFoundOrUsed")
                /\ keys' = keys

\* C25  remove_key contract.
C25_RemoveContract == [][C25_Step]_vars

(***************************************************************************)
(* C26  Order creation: the step of payment_proof adds exactly one order,  *)
(* pending, with null key_assigned, approved_at and approved_by, carrying  *)
(* the buyer and the product, duration and amount of the session; it       *)
(* leaves every existing order, every key row and every sales row as they  *)
(* were.                                                                   *)
(***************************************************************************)
C26_Step ==
    Len(orders') # Len(orders) =>
        /\ Len(orders') = Len(orders) + 1
        /\ \A i \in DOMAIN orders : orders'[i] = orders[i]
        /\ LET o == orders'[Len(orders')]
           IN /\ o.status = "pending"
              /\ o.key_assigned = NULL
              /\ o.approved_at = NULL
              /\ o.approved_by = NULL
              /\ o.user_id \in Buyers /\ o.username = o.user_id
              /\ o.product_name \in ProductInputs
              /\ o.duration_days \in PlanInputs
              /\ o.amount = DEFAULT_PRICES[o.duration_days]
              /\ o.created_at = now
        /\ keys' = keys
        /\ sales_history' = sales_history
        /\ call' = call

C27_Stamped ==
    \A i \in DOMAIN orders :
        IF orders[i].status = "approved"
        THEN /\ orders[i].approved_at # NULL
             /\ orders[i].approved_by # NULL
             /\ \E p \in CallIds :
                   /\ call[p].handler \in {"approve_order", "pannel.approve_order"}
                   /\ call[p].order_id = i
                   /\ call[p].from_user = Val(orders[i].approved_by)
        ELSE /\ orders[i].approved_at = NULL
             /\ orders[i].approved_by = NULL

(***************************************************************************)
(* C28  All-or-nothing allocation (src/pannel.py): once every call has     *)
(* returned, whether normally or by a store error, no order is approved    *)
(* while its assigned key is unused, and no key is used without a sales    *)
(* row that gives it.                                                      *)
(***************************************************************************)
C28_NoPartialState ==
    AllReturned =>
        /\ \A i \in DOMAIN orders :
              orders[i].status = "approved" =>
                 \A k \in keys :
                    k.key_value = Val(orders[i].key_assigned) => k.is_used
        /\ \A k \in keys :
              k.is_used =>
                 \E j \in DOMAIN sales_history :
                    sales_history[j].key_given = k.key_value

(***************************************************************************)
(* C29  FIFO tie-break (src/pannel.py): when several unused keys match the *)
(* order's product and duration, the key approve_order selects is one with *)
(* the earliest added_at.                                                  *)
(***************************************************************************)
C29_Step ==
    \A p \in CallIds :
        ( /\ call[p].handler = "pannel.approve_order" /\ call[p].pc = "select"
          /\ call'[p].kr # NULL )
        => \A j \in keys :
              ( /\ ~j.is_used
                /\ j.product_name = Val(call[p].order).product_name
                /\ j.duration_days = Val(call[p].order).duration_days )
              => Val(call'[p].kr).added_at <= j.added_at

\* C29  FIFO tie-break of src/pannel.py.
C29_PannelOldestFirst == [][C29_Step]_vars

(***************************************************************************)
(* C30  Credential value uniqueness (src/pannel.py): in every state,       *)
(* concurrent add_key calls for one value included, two different key rows *)
(* have different key_values.                                              *)
(***************************************************************************)
C30_PannelValueUnique ==
    \A k \in keys, j \in keys : k.id # j.id => k.key_value # j.key_value

(***************************************************************************)
(* Serial executions of the decisions: what a call of approve_order or     *)
(* reject_order does to the store when no other call runs between its      *)
(* first and its last statement.                                           *)
(***************************************************************************)
SerialApprove(db, c, at) ==
    LET order == FetchOrder(db, c.order_id)
    IN IF order = NULL \/ ~IsPending(Val(order))
       THEN {db}
       ELSE LET found == SelectKey(db, Val(order).duration_days,
                                   Val(order).product_name)
            IN IF found = {}
               THEN {db}
               ELSE {ApplyAll(db, << MarkKeyUsed(k.id),
                                     SetOrderApproved(c.order_id, k.key_value,
                                                      c.from_user, at),
                                     InsertSale(SaleRow(Val(order), k.key_value, at)) >>)
                     : k \in found}

SerialReject(db, c) ==
    LET order == FetchOrder(db, c.order_id)
    IN IF order = NULL \/ ~IsPending(Val(order))
       THEN {db}
       ELSE {ApplyWrite(db, SetOrderRejected(c.order_id))}

SerialCall(db, c, at) ==
    IF c.handler = "approve_order" THEN SerialApprove(db, c, at)
                                   ELSE SerialReject(db, c)

\* The stores the calls of S can leave when run one at a time, in any order,
\* from one of the stores dbs.
RECURSIVE SerialFrom(_, _, _)
SerialFrom(dbs, S, at) ==
    IF S = {} THEN dbs
    ELSE UNION {SerialFrom(UNION {SerialCall(d, call[p], at) : d \in dbs},
                           S \ {p}, at) : p \in S}

\* The store before any decision: the same orders, all pending, and the same
\* keys, all unused.
Undecided ==
    [keys |-> {[k EXCEPT !.is_used = FALSE] : k \in keys},
     orders |-> [i \in DOMAIN orders |->
                    OrderRow(orders[i].user_id, orders[i].product_name,
                             orders[i].duration_days, orders[i].amount,
                             orders[i].created_at)],
     sales |-> << >>]

\* Every call made so far was a decision of an operator on an existing order.
OnlyDecisions ==
    /\ Invoked # {}
    /\ \A p \in Invoked :
          /\ call[p].handler \in Decisions
          /\ call[p].from_user \in ADMIN_IDS
          /\ call[p].entry # NULL

(***************************************************************************)
(* C31  Serializability of decisions: when concurrent approve_order and    *)
(* reject_order calls have all returned, the store is one that the same    *)
(* calls leave when they run one at a time in some order.                  *)
(***************************************************************************)
C31_Serializable ==
    (AllReturned /\ OnlyDecisions)
    => DB \in SerialFrom({Undecided}, Invoked, now)

(***************************************************************************)
(* Vocabulary of the conversation properties.                              *)
(***************************************************************************)
\* The step is the handler payment_proof, run for buyer u.
ProofStep(u) ==
    /\ conv[u].state = PAYMENT_PROOF
    /\ conv'[u] = [state |-> END, last |-> "payment_proof"]

SessionComplete(u) ==
    /\ user_data[u].selected_product # NULL
    /\ user_data[u].selected_plan # NULL
    /\ user_data[u].price # NULL

(***************************************************************************)
(* C32  Orders come only from completed conversations: a step that adds an *)
(* order is payment_proof run on a session that holds a product, a plan    *)
(* and a price, and the order carries them; a plan enters the session only *)
(* in a step in which the count of unused keys of the session's product    *)
(* and that plan is greater than 0; payment_proof run on a session with    *)
(* one of the three missing adds no order and ends the conversation.       *)
(***************************************************************************)
C32_OnlyByProof ==
    Len(orders') # Len(orders) =>
        \E u \in Buyers :
            /\ ProofStep(u)
            /\ SessionComplete(u)
            /\ orders' = Append(orders,
                   OrderRow(u, Val(user_data[u].selected_product),
                            Val(user_data[u].selected_plan),
                            Val(user_data[u].price), now))

C32_PlanInStock ==
    \A u \in Buyers :
        ( /\ user_data'[u].selected_plan # NULL
          /\ user_data'[u].selected_plan # user_data[u].selected_plan )
        => /\ user_data[u].selected_product # NULL
           /\ Cardinality({k \in keys :
                  /\ k.product_name = Val(user_data[u].selected_product)
                  /\ k.duration_days = Val(user_data'[u].selected_plan)
                  /\ ~k.is_used}) > 0

C32_Expired ==
    \A u \in Buyers :
        (ProofStep(u) /\ ~SessionComplete(u))
        => /\ orders' = orders
           /\ conv'[u].state = END

\* C32  Orders come only from completed conversations.
C32_OrdersFromConversations ==
    [][C32_OnlyByProof /\ C32_PlanInStock /\ C32_Expired]_vars

\* A proof message has arrived in a conversation whose session was cleared by
\* the Cancel button after the plan was picked: no order, conversation ended.
C32_Witness ==
    \E u \in Buyers :
        /\ conv[u] = [state |-> END, last |-> "payment_proof"]
        /\ orders = << >>
        /\ user_data[u] = EmptySession

(***************************************************************************)
(* C33  Retry after an ambiguous commit is safe: an attempt that follows a *)
(* connection error at the commit and finds its order approved returns     *)
(* without writing; and when a call made alone has returned after such a   *)
(* commit, exactly one key is consumed for its order and exactly one sales *)
(* row is written for it.                                                  *)
(***************************************************************************)
C33_Step ==
    \A p \in CallIds :
        ( /\ call[p].handler = "approve_order" /\ call[p].pc = "fetch"
          /\ call[p].attempt > 0 /\ call[p].failed_at = "commit"
          /\ call[p].order_id \in DOMAIN orders
          /\ orders[call[p].order_id].status = "approved"
          /\ call'[p] # call[p] /\ faults' = faults )
        => /\ DB' = DB
           /\ call'[p].pc = "done"
           /\ call'[p].outcome = << "AlreadyDecided", "approved" >>

\* The call was made alone and has returned otherwise than by its own
\* notification, and its order is approved: its commit was applied and then
\* reported as a connection error.
CommitWasLost(p) ==
    /\ Invoked = {p} /\ Returned(p)
    /\ call[p].handler = "approve_order"
    /\ call[p].failed_at = "commit"
    /\ ~Reported(p, "Approved")
    /\ call[p].order_id \in DOMAIN orders
    /\ orders[call[p].order_id].status = "approved"

C33_Left ==
    \A p \in CallIds :
        CommitWasLost(p)
        => /\ Cardinality(ConsumedFor(DB, call[p].order_id)) = 1
           /\ Cardinality({k \in keys : k.is_used}) = 1
           /\ Cardinality(SalesFor(DB, call[p].order_id)) = 1
           /\ Len(sales_history) = 1

\* C33  Retry after an ambiguous commit is safe.
C33_RetryAfterCommit == [][C33_Step]_vars /\ []C33_Left

\* A call made alone, with two keys in stock, lost the acknowledgement of its
\* commit, tried again and returned on the approved order.
C33_Witness ==
    \E p \in CallIds :
        /\ CommitWasLost(p)
        /\ call[p].outcome = << "AlreadyDecided", "approved" >>
        /\ Cardinality(keys) = 2
        /\ Cardinality({k \in keys : k.is_used}) = 1

(***************************************************************************)
(* C34  Delivered key matches the record: in the step in which             *)
(* approve_order sends the buyer key K for order O, O is approved with     *)
(* key_assigned = K; from then on O stays approved with that key; and at   *)
(* most one call has sent a key for O.                                     *)
(***************************************************************************)
\* Call p has sent the buyer of order o a key.
KeySent(p, o) ==
    /\ call[p].handler = "approve_order" /\ call[p].order_id = o
    /\ Reported(p, "Approved")

C34_AtDelivery ==
    \A p \in CallIds :
        ( /\ call[p].handler = "approve_order" /\ call[p].pc = "notify"
          /\ call'[p].outcome = Some("Approved") )
        => /\ orders[call[p].order_id].status = "approved"
           /\ orders[call[p].order_id].key_assigned = call[p].key_value

C34_Afterwards ==
    \A o \in DOMAIN orders :
        (\E p \in CallIds : KeySent(p, o))
        => /\ orders'[o].status = "approved"
           /\ orders'[o].key_assigned = orders[o].key_assigned

C34_OneMessage ==
    \A o \in DOMAIN orders :
        Cardinality({p \in CallIds : KeySent(p, o)}) <= 1

\* C34  Delivered key matches the record.
C34_DeliveredKeyMatches ==
    [][C34_AtDelivery /\ C34_Afterwards]_vars /\ []C34_OneMessage

(***************************************************************************)
(* C35  Frame of a decision: a step of approve_order or reject_order on    *)
(* order O leaves O's user_id, username, product_name, duration_days,      *)
(* amount and created_at as they were and changes no other order; a step   *)
(* of approve_order changes no key but the one the call selected, and a    *)
(* step of reject_order changes no key.                                    *)
(***************************************************************************)
SameRequest(a, b) ==
    /\ a.user_id = b.user_id /\ a.username = b.username
    /\ a.product_name = b.product_name /\ a.duration_days = b.duration_days
    /\ a.amount = b.amount /\ a.created_at = b.created_at

C35_Step ==
    \A p \in CallIds :
        ( /\ call[p].handler \in Decisions /\ InFlight(p)
          /\ call'[p] # call[p] )
        => /\ DOMAIN orders' = DOMAIN orders
           /\ \A i \in DOMAIN orders :
                 IF i = call[p].order_id
                 THEN SameRequest(orders'[i], orders[i])
                 ELSE orders'[i] = orders[i]
           /\ {k.id : k \in keys'} = {k.id : k \in keys}
           /\ \A k \in keys :
                 ( \/ call[p].handler = "reject_order"
                   \/ call[p].kr = NULL
                   \/ k.id # Val(call[p].kr).id )
                 => k \in keys'

\* C35  Frame of a decision.
C35_DecisionFrame == [][C35_Step]_vars

\* The second of two orders was approved with the older of two keys: the
\* first order is pending as it was created and the other key is unused.
C35_Witness ==
    /\ Len(orders) = 2 /\ Cardinality(keys) = 2
    /\ orders[2].status = "approved"
    /\ orders[1] = OrderRow(orders[1].user_id, orders[1].product_name,
                            orders[1].duration_days, orders[1].amount,
                            orders[1].created_at)
    /\ Cardinality({k \in keys : k.is_used}) = 1
    /\ \E p \in CallIds : call[p].order_id = 2 /\ Reported(p, "Approved")

(***************************************************************************)
(* C36  Cancel discards the pending purchase: cancel_cmd and cancel_cb     *)
(* leave the buyer's session without product, plan and price; a product    *)
(* enters the session only by product_selected and a plan only by          *)
(* plan_selected on a session that holds a product; and a proof message    *)
(* adds an order only from a session that holds both.  So after a cancel   *)
(* no proof adds an order before both were selected again.                 *)
(***************************************************************************)
C36_CancelClears ==
    \A u \in Buyers :
        ( /\ conv'[u].last \in {"cancel_cmd", "cancel_cb"}
          /\ conv'[u].last # conv[u].last )
        => user_data'[u] = EmptySession

C36_StaysClear ==
    \A u \in Buyers :
        /\ ( /\ user_data[u].selected_product = NULL
             /\ user_data'[u].selected_product # NULL )
           => conv'[u] = [state |-> SELECT_PLAN, last |-> "product_selected"]
        /\ ( /\ user_data[u].selected_plan = NULL
             /\ user_data'[u].selected_plan # NULL )
           => /\ conv'[u] = [state |-> PAYMENT_PROOF, last |-> "plan_selected"]
              /\ user_data[u].selected_product # NULL

C36_ProofNeedsBoth ==
    Len(orders') # Len(orders) =>
        \E u \in Buyers :
            /\ ProofStep(u)
            /\ user_data[u].selected_product # NULL
            /\ user_data[u].selected_plan # NULL

\* A proof that directly follows a cancel adds no order.
C36_ProofAfterCancel ==
    \A u \in Buyers :
        (conv[u].last \in {"cancel_cmd", "cancel_cb"} /\ ProofStep(u))
        => orders' = orders

\* C36  Cancel discards the pending purchase.
C36_CancelDiscards ==
    [][/\ C36_CancelClears /\ C36_StaysClear
       /\ C36_ProofNeedsBoth /\ C36_ProofAfterCancel]_vars

\* The Cancel button was pressed after the plan was picked, in a store that
\* has the key, and the proof that followed ended the conversation without
\* an order.
C36_Witness ==
    \E u \in Buyers :
        /\ conv[u] = [state |-> END, last |-> "payment_proof"]
        /\ user_data[u] = EmptySession
        /\ orders = << >>
        /\ \E k \in keys : ~k.is_used
        /\ AllReturned /\ Invoked = {}

(***************************************************************************)
(* C37  Price table consistency: every order in the store has a            *)
(* duration_days that is a plan and an amount equal to                     *)
(* DEFAULT_PRICES[duration_days], whatever the conversation did before     *)
(* (restarts, a product or plan selected again).                           *)
(***************************************************************************)
C37_PriceConsistent ==
    \A i \in DOMAIN orders :
        /\ orders[i].duration_days \in {1, 3, 7, 15, 30, 60}
        /\ orders[i].amount = DEFAULT_PRICES[orders[i].duration_days]

\* Two orders of different plans exist, the second created after the
\* conversation was started again and another plan was picked.
C37_Witness ==
    /\ Len(orders) = 2
    /\ orders[1].duration_days # orders[2].duration_days
    /\ orders[1].amount # orders[2].amount
    /\ \A u \in Buyers : conv[u] = [state |-> END, last |-> "payment_proof"]

(***************************************************************************)
(* C38  Catalog cache coherence: when no product add or remove is in       *)
(* flight, the PRODUCTS list of a bot process is the set of the products   *)
(* that are active in the store.                                           *)
(***************************************************************************)
C38_CacheCoherent ==
    (\A q \in Procs : AdminFree(q))
    => \A q \in Procs : PRODUCTS[q] = ActiveProducts(products)
====
